---------------------------- MODULE Spec2Model ----------------------------
(***************************************************************************)
(* Model of the logdog watchdog: the timeout-tracking state machine        *)
(* (src/state_machine.py), the legacy rules and the line/timeout handlers  *)
(* of the monitor (src/log_monitor.py) and the notifier calls they make    *)
(* (src/notifier.py), and the monitor's worker thread with the calls that  *)
(* start and stop it (src/log_monitor.py).                                 *)
(*                                                                         *)
(* Time is the value of datetime.now() in milliseconds.  A Python          *)
(* Optional[datetime] is a sequence of length <= 1: <<>> is None.          *)
(* A Python dict is the sequence of its keys in insertion order.           *)
(***************************************************************************)
EXTENDS Integers, Sequences, FiniteSets, TLC

VARIABLES
    config,         \* which configuration file was loaded at startup
    now,            \* the value datetime.now() returns
    sm,             \* the WatchdogStateMachine object (config.state_machine)
    rules,          \* the mutable fields of the legacy WatchdogRule objects
    notifications,  \* the calls made to WatchdogNotifier, in order
    is_running,     \* EnhancedLogMonitor.is_running
    stop_event,     \* whether the threading.Event stop_event is set
    log_file,       \* EnhancedLogMonitor.log_file: None or an open handle
    unread,         \* the nodes of the complete lines in the log file after
                    \* the position of the handle (none without a handle)
    monitor_thread, \* EnhancedLogMonitor.monitor_thread: None or <<thread>>
    threads,        \* per thread: where it is in _monitor_loop, and the
                    \* lines of new_lines its for loop has still to process
    joining,        \* the caller of stop_monitoring is blocked in join()
    file_bytes,     \* the bytes of the log file on disk
    log_file_position, \* EnhancedLogMonitor.log_file_position
    position,       \* the byte offset of the handle log_file in the file
    returned,       \* the lines _read_new_log_lines has returned, in order
    loop_errors,    \* how many times _monitor_loop printed "Monitor loop error"
    delivered       \* the values the calls of send_notification returned

lifecycle == <<is_running, stop_event, log_file, unread, monitor_thread,
               threads, joining>>

reader == <<file_bytes, log_file_position, position, returned>>

vars == <<config, now, sm, rules, notifications, is_running, stop_event,
          log_file, unread, monitor_thread, threads, joining, file_bytes,
          log_file_position, position, returned, loop_errors, delivered>>

---------------------------------------------------------------------------
(* Bounds of the model *)

MaxTicks == 4
MaxHistory == 3
MaxNotifications == 4
MaxLogHistory == 6
MaxUnread == 2
MaxLoopTicks == 2
MaxLoopHistory == 3
MaxFileBytes == 5
MaxLoopErrors == 1
MaxDelivered == 3

---------------------------------------------------------------------------
(* Configuration: the [states] and [rules] sections loaded by config.py *)

None == <<>>

Transition(target_node, timeout_ms) ==
    [target_node |-> target_node, timeout_ms |-> timeout_ms]

\* The WatchdogState entries a [states] section gives: a three-step rule
\* whose last two steps wait for the same node, and a rule whose only step
\* waits for its own start node.
StateR ==
    [start_node |-> "A",
     transitions |-> <<Transition("B", 669), Transition("C", 2007),
                       Transition("C", 2007)>>]

StateH ==
    [start_node |-> "B", transitions |-> <<Transition("B", 669)>>]

\* A two-step rule whose first step waits for its own start node, so that
\* the line that activates it also moves it to its second step.
StateT ==
    [start_node |-> "A",
     transitions |-> <<Transition("A", 669), Transition("B", 669)>>]

\* The WatchdogRule entries a [rules] section gives: one with start_node
\* different from end_node and one with both the same.
RuleL == [start_node |-> "A", timeout_ms |-> 1338, end_node |-> "C"]

RuleK == [start_node |-> "B", timeout_ms |-> 669, end_node |-> "B"]

\* The configuration files the model loads: state-machine rules only,
\* legacy rules only, one rule of each kind (both started by node "B"), and
\* the one state-machine rule the running service is modelled with.
ConfigNames == {"states", "rules", "both", "service"}

\* state_machine.states, filled by add_state.
States ==
    CASE config = "states" -> [R |-> StateR, H |-> StateH]
      [] config = "both" -> [H |-> StateH]
      [] config = "service" -> [T |-> StateT]
      [] OTHER -> <<>>

\* Insertion order of state_machine.states (the order of .items()).
StateOrder ==
    CASE config = "states" -> <<"R", "H">>
      [] config = "both" -> <<"H">>
      [] config = "service" -> <<"T">>
      [] OTHER -> <<>>

StateNames == DOMAIN States

\* config.rules, filled by _parse_rule_config.
Rules ==
    CASE config = "rules" -> [L |-> RuleL, K |-> RuleK]
      [] config = "both" -> [K |-> RuleK]
      [] OTHER -> <<>>

\* Insertion order of config.rules.
RuleOrder ==
    CASE config = "rules" -> <<"L", "K">>
      [] config = "both" -> <<"K">>
      [] OTHER -> <<>>

RuleNames == DOMAIN Rules

\* Node names a log line can carry; "Z" is used by no rule.
Nodes == {"A", "B", "C", "Z"}

\* Names the engine's methods can be called with; "Q" is no key of states.
CallNames == StateNames \cup {"Q"}

\* The readings of datetime.now() the model draws, in ms.
ClockReadings == {669 * k : k \in 0..MaxTicks}

---------------------------------------------------------------------------
(* (t2 - t1).total_seconds() * 1000                                        *)

\* The durations d (ms, among the first 24 multiples of the clock step) for
\* which the IEEE-754 double  (d * 1000 / 10**6) * 1000  is one ulp above d,
\* e.g. 2.007 * 1000 = 2007.0000000000002.  For no such d is it below d.
RoundedUp == {2007, 4014, 8028, 16056}

\* The float elapsed_ms: its integer part and the sign of its excess over it.
TotalSecondsTimes1000(d) ==
    [ms |-> d, ulps |-> IF d \in RoundedUp THEN 1 ELSE 0]

\* elapsed_ms > timeout_ms, a float compared with an int.
FloatGreater(f, n) == f.ms > n \/ (f.ms = n /\ f.ulps > 0)

\* int(elapsed_ms)
IntOf(f) == IF f.ulps < 0 THEN f.ms - 1 ELSE f.ms

\* f"{elapsed_ms:.1f}": rounded to a tenth of a millisecond.
Format1f(f) == f.ms

\* strftime('%Y-%m-%d %H:%M:%S'): whole seconds.
StrfSeconds(t) == t \div 1000

---------------------------------------------------------------------------
(* dict operations on a sequence of keys *)

Range(s) == {s[i] : i \in 1..Len(s)}

DictSet(d, k) == IF k \in Range(d) THEN d ELSE Append(d, k)

DictDel(d, k) == SelectSeq(d, LAMBDA x : x # k)

---------------------------------------------------------------------------
(* WatchdogStateMachine *)

\* __init__ and the WatchdogState defaults of every added state.
NewStateMachine ==
    [is_active |-> [s \in StateNames |-> FALSE],
     last_activation_time |-> [s \in StateNames |-> None],
     current_transition_index |-> [s \in StateNames |-> 0],
     active_states |-> <<>>,
     state_history |-> <<>>]

HistoryEntry(state_name, event, t) == <<state_name, event, t>>

\* _deactivate_state leaving is_active set.
DeactivateStateKeepsFlag(m, state_name, reason, t) ==
    IF state_name \in Range(m.active_states)
    THEN [m EXCEPT
            !.last_activation_time[state_name] = None,
            !.current_transition_index[state_name] = 0,
            !.active_states = DictDel(@, state_name),
            !.state_history = Append(@, HistoryEntry(state_name, reason, t))]
    ELSE m

\* _deactivate_state leaving current_transition_index where it was.
DeactivateStateKeepsIndex(m, state_name, reason, t) ==
    IF state_name \in Range(m.active_states)
    THEN [m EXCEPT
            !.is_active[state_name] = FALSE,
            !.last_activation_time[state_name] = None,
            !.active_states = DictDel(@, state_name),
            !.state_history = Append(@, HistoryEntry(state_name, reason, t))]
    ELSE m

\* _deactivate_state(state_name, reason) at time t.
DeactivateState(m, state_name, reason, t) ==
    IF state_name \in Range(m.active_states)
    THEN [m EXCEPT
            !.is_active[state_name] = FALSE,
            !.last_activation_time[state_name] = None,
            !.current_transition_index[state_name] = 0,
            !.active_states = DictDel(@, state_name),
            !.state_history = Append(@, HistoryEntry(state_name, reason, t))]
    ELSE m

\* A reset that writes its entry over the last entry of the history.
ResetStateOverwrites(m, state_name, trigger_node, t) ==
    [m EXCEPT
        !.last_activation_time[state_name] = <<t>>,
        !.state_history = Append(SubSeq(@, 1, Len(@) - 1),
                              HistoryEntry(state_name,
                                  [kind |-> "RESET", by |-> trigger_node], t))]

\* A reset that also restarts the rule at its first step.
ResetStateRestarts(m, state_name, trigger_node, t) ==
    [m EXCEPT
        !.last_activation_time[state_name] = <<t>>,
        !.current_transition_index[state_name] = 0,
        !.state_history = Append(@, HistoryEntry(state_name,
                              [kind |-> "RESET", by |-> trigger_node], t))]

\* The branch of activate_state taken when the state is already active.
ResetState(m, state_name, trigger_node, t) ==
    [m EXCEPT
        !.last_activation_time[state_name] = <<t>>,
        !.state_history = Append(@, HistoryEntry(state_name,
                              [kind |-> "RESET", by |-> trigger_node], t))]

\* An activation that does not enter the state in active_states.
StartStateUnlisted(m, state_name, trigger_node, t) ==
    [m EXCEPT
        !.is_active[state_name] = TRUE,
        !.last_activation_time[state_name] = <<t>>,
        !.current_transition_index[state_name] = 0,
        !.state_history = Append(@, HistoryEntry(state_name,
                              [kind |-> "ACTIVATED", by |-> trigger_node], t))]

\* The branch of activate_state taken when the state is not active.
StartState(m, state_name, trigger_node, t) ==
    [m EXCEPT
        !.is_active[state_name] = TRUE,
        !.last_activation_time[state_name] = <<t>>,
        !.current_transition_index[state_name] = 0,
        !.active_states = DictSet(@, state_name),
        !.state_history = Append(@, HistoryEntry(state_name,
                              [kind |-> "ACTIVATED", by |-> trigger_node], t))]

\* An activate_state that does not compare the node with start_node.
ActivateStateAnyNode(m, state_name, trigger_node, t) ==
    IF state_name \notin StateNames
    THEN [ret |-> FALSE, sm |-> m]
    ELSE IF m.is_active[state_name]
    THEN [ret |-> TRUE, sm |-> ResetState(m, state_name, trigger_node, t)]
    ELSE [ret |-> TRUE, sm |-> StartState(m, state_name, trigger_node, t)]

\* activate_state(state_name, trigger_node) at time t: the returned bool and
\* the machine afterwards.
ActivateStateOp(m, state_name, trigger_node, t) ==
    IF state_name \notin StateNames
    THEN [ret |-> FALSE, sm |-> m]
    ELSE IF trigger_node # States[state_name].start_node
    THEN [ret |-> FALSE, sm |-> m]
    ELSE IF m.is_active[state_name]
    THEN [ret |-> TRUE, sm |-> ResetState(m, state_name, trigger_node, t)]
    ELSE [ret |-> TRUE, sm |-> StartState(m, state_name, trigger_node, t)]

\* A transition that writes a TRANSITION entry for the last step too,
\* before the rule is completed.
TakeTransitionLogsLastStep(m, state_name, node_name, t) ==
    LET transitions == States[state_name].transitions
        index == m.current_transition_index[state_name] + 1
        m1 == [m EXCEPT !.current_transition_index[state_name] = index]
    IN  IF index >= Len(transitions)
        THEN [ret |-> <<TRUE>>,
              sm |-> DeactivateState(
                         [m1 EXCEPT
                            !.state_history = Append(@, HistoryEntry(state_name,
                                [kind |-> "TRANSITION", to |-> node_name], t))],
                         state_name,
                         [kind |-> "COMPLETED", by |-> node_name], t)]
        ELSE [ret |-> <<FALSE>>,
              sm |-> [m1 EXCEPT
                        !.last_activation_time[state_name] = <<t>>,
                        !.state_history = Append(@, HistoryEntry(state_name,
                            [kind |-> "TRANSITION",
                             to |-> transitions[index + 1].target_node], t))]]

\* A transition that leaves last_activation_time as it was.
TakeTransitionStaleClock(m, state_name, node_name, t) ==
    LET transitions == States[state_name].transitions
        index == m.current_transition_index[state_name] + 1
        m1 == [m EXCEPT !.current_transition_index[state_name] = index]
    IN  IF index >= Len(transitions)
        THEN [ret |-> <<TRUE>>,
              sm |-> DeactivateState(m1, state_name,
                         [kind |-> "COMPLETED", by |-> node_name], t)]
        ELSE [ret |-> <<FALSE>>,
              sm |-> [m1 EXCEPT
                        !.state_history = Append(@, HistoryEntry(state_name,
                            [kind |-> "TRANSITION",
                             to |-> transitions[index + 1].target_node], t))]]

\* Lines 85-96 of check_transition: the node matched the current target.
TakeTransition(m, state_name, node_name, t) ==
    LET transitions == States[state_name].transitions
        index == m.current_transition_index[state_name] + 1
        m1 == [m EXCEPT !.current_transition_index[state_name] = index]
    IN  IF index >= Len(transitions)
        THEN [ret |-> <<TRUE>>,
              sm |-> DeactivateState(m1, state_name,
                         [kind |-> "COMPLETED", by |-> node_name], t)]
        ELSE [ret |-> <<FALSE>>,
              sm |-> [m1 EXCEPT
                        !.last_activation_time[state_name] = <<t>>,
                        !.state_history = Append(@, HistoryEntry(state_name,
                            [kind |-> "TRANSITION",
                             to |-> transitions[index + 1].target_node], t))]]

\* A check_transition that looks at the deadline of the step first and
\* removes a state that is late.
CheckTransitionChecksDeadline(m, state_name, node_name, t) ==
    IF state_name \notin Range(m.active_states)
    THEN [ret |-> None, sm |-> m]
    ELSE LET transitions == States[state_name].transitions
             index == m.current_transition_index[state_name]
             elapsed_ms == TotalSecondsTimes1000(
                               t - m.last_activation_time[state_name][1])
         IN  IF Len(transitions) = 0 \/ index >= Len(transitions)
             THEN [ret |-> None, sm |-> m]
             ELSE IF FloatGreater(elapsed_ms, transitions[index + 1].timeout_ms)
             THEN [ret |-> None,
                   sm |-> DeactivateState(m, state_name,
                              [kind |-> "TIMEOUT", after |-> Format1f(elapsed_ms)], t)]
             ELSE IF node_name = transitions[index + 1].target_node
             THEN TakeTransition(m, state_name, node_name, t)
             ELSE [ret |-> None, sm |-> m]

\* check_transition(state_name, node_name) at time t: ret is <<>> for None
\* and <<is_completed>> for the returned tuple.
CheckTransitionOp(m, state_name, node_name, t) ==
    IF state_name \notin Range(m.active_states)
    THEN [ret |-> None, sm |-> m]
    ELSE LET transitions == States[state_name].transitions
             index == m.current_transition_index[state_name]
         IN  IF Len(transitions) = 0 \/ index >= Len(transitions)
             THEN [ret |-> None, sm |-> m]
             ELSE IF node_name = transitions[index + 1].target_node
             THEN TakeTransition(m, state_name, node_name, t)
             ELSE [ret |-> None, sm |-> m]

\* A test that looks at the deadline of a state only while the state
\* waits for its first step.
TimedOutAtFirstStepOnly(m, state_name, t) ==
    LET index == m.current_transition_index[state_name]
        current_transition == States[state_name].transitions[index + 1]
        elapsed_ms == TotalSecondsTimes1000(t - m.last_activation_time[state_name][1])
    IN  /\ index = 0
        /\ FloatGreater(elapsed_ms, current_transition.timeout_ms)

\* The test of line 112 for one state: elapsed_ms > timeout_ms.
TimedOut(m, state_name, t) ==
    LET index == m.current_transition_index[state_name]
        current_transition == States[state_name].transitions[index + 1]
        elapsed_ms == TotalSecondsTimes1000(t - m.last_activation_time[state_name][1])
    IN  FloatGreater(elapsed_ms, current_transition.timeout_ms)

\* An iteration that reports a timed-out state and records it in the
\* history without removing it.
CheckTimeoutOfKeepsInstance(acc, state_name, t) ==
    LET m == acc.sm
        elapsed_ms == TotalSecondsTimes1000(t - m.last_activation_time[state_name][1])
    IN  IF TimedOut(m, state_name, t)
        THEN [timeouts |-> Append(acc.timeouts,
                              <<state_name, IntOf(elapsed_ms)>>),
              sm |-> [m EXCEPT !.state_history = Append(@,
                         HistoryEntry(state_name,
                             [kind |-> "TIMEOUT", after |-> Format1f(elapsed_ms)], t))]]
        ELSE acc

\* One iteration of the loop of check_timeouts, on acc = [timeouts, sm].
CheckTimeoutOf(acc, state_name, t) ==
    LET m == acc.sm
        index == m.current_transition_index[state_name]
        elapsed_ms == TotalSecondsTimes1000(t - m.last_activation_time[state_name][1])
    IN  IF m.last_activation_time[state_name] = None
           \/ index >= Len(States[state_name].transitions)
        THEN acc
        ELSE IF TimedOut(m, state_name, t)
        THEN [timeouts |-> Append(acc.timeouts,
                              <<state_name, IntOf(elapsed_ms)>>),
              sm |-> DeactivateState(m, state_name,
                         [kind |-> "TIMEOUT", after |-> Format1f(elapsed_ms)], t)]
        ELSE acc

RECURSIVE CheckTimeoutsLoop(_, _, _)
CheckTimeoutsLoop(acc, items, t) ==
    IF items = <<>>
    THEN acc
    ELSE CheckTimeoutsLoop(CheckTimeoutOf(acc, Head(items), t), Tail(items), t)

\* check_timeouts() at time t: the returned list (the state objects in it
\* are the machine's own, read later through sm) and the machine afterwards.
CheckTimeoutsOp(m, t) ==
    CheckTimeoutsLoop([timeouts |-> <<>>, sm |-> m], m.active_states, t)

---------------------------------------------------------------------------
(* WatchdogNotifier: the message each call builds and hands to            *)
(* send_notification.  The delivery outcome is returned and dropped by    *)
(* the callers, so a call is recorded by the content of its message.      *)

\* send_rule_activated(rule_name, rule) at time t.
SendRuleActivated(rule_name, t) ==
    [call |-> "send_rule_activated", rule |-> rule_name,
     start_node |-> Rules[rule_name].start_node,
     timeout |-> Rules[rule_name].timeout_ms,
     time |-> StrfSeconds(t)]

\* send_rule_completed(rule_name, rule, elapsed_ms) at time t.
SendRuleCompleted(rule_name, elapsed_ms, t) ==
    [call |-> "send_rule_completed", rule |-> rule_name,
     end_node |-> Rules[rule_name].end_node,
     elapsed |-> Format1f(elapsed_ms),
     timeout |-> Rules[rule_name].timeout_ms,
     time |-> StrfSeconds(t)]

\* send_timeout_alert(rule_name, rule, elapsed_ms) at time t, the rule's
\* last_start_time being last_start.
SendTimeoutAlert(rule_name, last_start, elapsed_ms, t) ==
    [call |-> "send_timeout_alert", rule |-> rule_name,
     start_node |-> Rules[rule_name].start_node,
     end_node |-> Rules[rule_name].end_node,
     timeout |-> Rules[rule_name].timeout_ms,
     elapsed |-> Format1f(elapsed_ms),
     last_start |-> IF last_start = None THEN None
                    ELSE <<StrfSeconds(last_start[1])>>,
     time |-> StrfSeconds(t)]

\* send_state_completed(state_name, state, node_name) at time t.
SendStateCompleted(state_name, node_name, t) ==
    [call |-> "send_state_completed", rule |-> state_name,
     start_node |-> States[state_name].start_node,
     node |-> node_name,
     time |-> StrfSeconds(t)]

\* send_state_timeout(state_name, state, elapsed_ms) at time t: the state
\* object is the machine's own, read as it is when the call is made.
\* waiting and timeout are <<>> where the message says "unknown".
SendStateTimeout(m, state_name, elapsed_ms, t) ==
    LET transitions == States[state_name].transitions
        index == m.current_transition_index[state_name]
        current_transition == IF index < Len(transitions)
                              THEN <<transitions[index + 1]>> ELSE None
    IN  [call |-> "send_state_timeout", rule |-> state_name,
         start_node |-> States[state_name].start_node,
         waiting |-> IF current_transition = None THEN None
                     ELSE <<current_transition[1].target_node>>,
         timeout |-> IF current_transition = None THEN None
                     ELSE <<current_transition[1].timeout_ms>>,
         elapsed |-> elapsed_ms,
         time |-> StrfSeconds(t)]

---------------------------------------------------------------------------
(* EnhancedLogMonitor: the handlers of one detected node and of one sweep, *)
(* on acc = [sm, rules, sent].                                             *)

\* An iteration that takes the node of a rule with start_node = end_node,
\* seen while the rule is active, as the rule's end.
CheckLegacyRuleEnds(acc, rule_name, node_name, t) ==
    LET rule == Rules[rule_name]
        r == acc.rules[rule_name]
    IN  IF node_name = rule.start_node /\ ~r.is_active
        THEN [acc EXCEPT !.rules[rule_name] =
                 [is_active |-> TRUE, last_start_time |-> <<t>>]]
        ELSE IF node_name = rule.end_node /\ r.is_active
        THEN [acc EXCEPT
                !.rules[rule_name] =
                    [is_active |-> FALSE, last_start_time |-> None],
                !.sent = Append(@, SendRuleCompleted(rule_name,
                    TotalSecondsTimes1000(t - r.last_start_time[1]), t))]
        ELSE acc

\* An iteration in which the start node of an active rule starts its
\* timer again.
CheckLegacyRuleRestarts(acc, rule_name, node_name, t) ==
    LET rule == Rules[rule_name]
        r == acc.rules[rule_name]
    IN  IF node_name = rule.start_node
        THEN IF r.is_active /\ rule.start_node # rule.end_node
             THEN [acc EXCEPT !.rules[rule_name].last_start_time = <<t>>]
             ELSE IF rule.start_node = rule.end_node
             THEN [acc EXCEPT !.rules[rule_name] =
                      [is_active |-> TRUE, last_start_time |-> <<t>>]]
             ELSE [acc EXCEPT
                     !.rules[rule_name] =
                         [is_active |-> TRUE, last_start_time |-> <<t>>],
                     !.sent = Append(@, SendRuleActivated(rule_name, t))]
        ELSE IF rule.start_node # rule.end_node
                /\ node_name = rule.end_node /\ r.is_active
        THEN [acc EXCEPT
                !.rules[rule_name] =
                    [is_active |-> FALSE, last_start_time |-> None],
                !.sent = Append(@, SendRuleCompleted(rule_name,
                    TotalSecondsTimes1000(t - r.last_start_time[1]), t))]
        ELSE acc

\* One iteration of the loop of _check_legacy_rules.
CheckLegacyRule(acc, rule_name, node_name, t) ==
    LET rule == Rules[rule_name]
        r == acc.rules[rule_name]
    IN  IF rule.start_node = rule.end_node /\ node_name = rule.start_node
        THEN [acc EXCEPT !.rules[rule_name] =
                 [is_active |-> TRUE, last_start_time |-> <<t>>]]
        ELSE IF rule.start_node # rule.end_node
        THEN IF node_name = rule.start_node /\ ~r.is_active
             THEN [acc EXCEPT
                     !.rules[rule_name] =
                         [is_active |-> TRUE, last_start_time |-> <<t>>],
                     !.sent = Append(@, SendRuleActivated(rule_name, t))]
             ELSE IF node_name = rule.end_node /\ r.is_active
             THEN [acc EXCEPT
                     !.rules[rule_name] =
                         [is_active |-> FALSE, last_start_time |-> None],
                     !.sent = Append(@, SendRuleCompleted(rule_name,
                         TotalSecondsTimes1000(t - r.last_start_time[1]), t))]
             ELSE acc
        ELSE acc

RECURSIVE CheckLegacyRules(_, _, _, _)
\* _check_legacy_rules(node_name, log_line): the rules in config order.
CheckLegacyRules(acc, names, node_name, t) ==
    IF names = <<>>
    THEN acc
    ELSE CheckLegacyRules(CheckLegacyRule(acc, Head(names), node_name, t),
                          Tail(names), node_name, t)

RECURSIVE ActivateStates(_, _, _, _)
\* The first loop of _check_state_machine_rules: activate_state on every
\* configured state, in the order of states.items().
ActivateStates(acc, names, node_name, t) ==
    IF names = <<>>
    THEN acc
    ELSE ActivateStates(
             [acc EXCEPT !.sm = ActivateStateOp(@, Head(names), node_name, t).sm],
             Tail(names), node_name, t)

\* The second loop's body without the call of send_state_completed.
CheckStateTransitionSilent(acc, state_name, node_name, t) ==
    [acc EXCEPT !.sm = CheckTransitionOp(acc.sm, state_name, node_name, t).sm]

\* An iteration that calls check_transition again on a state the node has
\* moved, as long as the node matches.
CheckStateTransitionAgain(acc, state_name, node_name, t) ==
    LET first == CheckTransitionOp(acc.sm, state_name, node_name, t)
        second == CheckTransitionOp(first.sm, state_name, node_name, t)
        result == IF first.ret # None /\ ~first.ret[1] /\ second.ret # None
                  THEN second ELSE first
    IN  IF result.ret # None /\ result.ret[1]
        THEN [acc EXCEPT
                !.sm = result.sm,
                !.sent = Append(@, SendStateCompleted(state_name, node_name, t))]
        ELSE [acc EXCEPT !.sm = result.sm]

\* One iteration of the second loop of _check_state_machine_rules.
CheckStateTransition(acc, state_name, node_name, t) ==
    LET result == CheckTransitionOp(acc.sm, state_name, node_name, t)
    IN  IF result.ret # None /\ result.ret[1]
        THEN [acc EXCEPT
                !.sm = result.sm,
                !.sent = Append(@, SendStateCompleted(state_name, node_name, t))]
        ELSE [acc EXCEPT !.sm = result.sm]

RECURSIVE CheckStateTransitionsFirstMatch(_, _, _, _)
\* A second loop that stops at the first state the node moves.
CheckStateTransitionsFirstMatch(acc, snapshot, node_name, t) ==
    IF snapshot = <<>>
    THEN acc
    ELSE LET after == CheckStateTransition(acc, Head(snapshot), node_name, t)
         IN  IF after.sm # acc.sm
             THEN after
             ELSE CheckStateTransitionsFirstMatch(after, Tail(snapshot),
                                                  node_name, t)

RECURSIVE CheckStateTransitions(_, _, _, _)
\* The second loop: check_transition on every state of the snapshot taken
\* by get_active_states(), in its order.
CheckStateTransitions(acc, snapshot, node_name, t) ==
    IF snapshot = <<>>
    THEN acc
    ELSE CheckStateTransitions(
             CheckStateTransition(acc, Head(snapshot), node_name, t),
             Tail(snapshot), node_name, t)

\* A handler that checks the transitions only for a node that triggered no
\* rule.
CheckStateMachineRulesExclusive(acc, node_name, t) ==
    LET activated == ActivateStates(acc, StateOrder, node_name, t)
    IN  IF activated.sm # acc.sm
        THEN activated
        ELSE CheckStateTransitions(activated, activated.sm.active_states,
                                   node_name, t)

\* _check_state_machine_rules(node_name, log_line)
CheckStateMachineRules(acc, node_name, t) ==
    LET activated == ActivateStates(acc, StateOrder, node_name, t)
    IN  CheckStateTransitions(activated, activated.sm.active_states,
                              node_name, t)

\* The part of _process_log_line after the node name was extracted.
ProcessLogLineOp(acc, node_name, t) ==
    CheckStateMachineRules(CheckLegacyRules(acc, RuleOrder, node_name, t),
                           node_name, t)

\* One iteration of the legacy loop of _check_timeouts.
CheckLegacyTimeout(acc, rule_name, t) ==
    LET r == acc.rules[rule_name]
        elapsed_ms == TotalSecondsTimes1000(t - r.last_start_time[1])
    IN  IF ~r.is_active \/ r.last_start_time = None
        THEN acc
        ELSE IF FloatGreater(elapsed_ms, Rules[rule_name].timeout_ms)
        THEN [acc EXCEPT
                !.sent = Append(@, SendTimeoutAlert(rule_name,
                                       r.last_start_time, elapsed_ms, t)),
                !.rules[rule_name] =
                    [is_active |-> FALSE, last_start_time |-> None]]
        ELSE acc

RECURSIVE CheckLegacyTimeouts(_, _, _)
CheckLegacyTimeouts(acc, names, t) ==
    IF names = <<>>
    THEN acc
    ELSE CheckLegacyTimeouts(CheckLegacyTimeout(acc, Head(names), t),
                             Tail(names), t)

RECURSIVE SendStateTimeouts(_, _, _)
\* The loop over the list check_timeouts returned.
SendStateTimeouts(acc, timeouts, t) ==
    IF timeouts = <<>>
    THEN acc
    ELSE SendStateTimeouts(
             [acc EXCEPT !.sent = Append(@,
                 SendStateTimeout(acc.sm, Head(timeouts)[1], Head(timeouts)[2], t))],
             Tail(timeouts), t)

\* _check_timeouts()
CheckTimeoutsAllOp(acc, t) ==
    LET legacy == CheckLegacyTimeouts(acc, RuleOrder, t)
        swept == CheckTimeoutsOp(legacy.sm, t)
    IN  SendStateTimeouts([legacy EXCEPT !.sm = swept.sm], swept.timeouts, t)

---------------------------------------------------------------------------
(* Threads of the monitor *)

\* The threads start_monitoring can create that may be alive at one time.
Threads == {1, 2}

\* A thread that was never started or has left _monitor_loop.
NoThread == [pc |-> "dead", new_lines |-> <<>>]

IsAlive(w) == threads[w].pc # "dead"

\* What start_monitoring may find behind config.log_file_path and
\* enable_stdout_capture: an existing file, no file, a file open() fails
\* on, stdout capture, or nothing configured.
LogSources == {"file", "missing", "unopenable", "stdout", "none"}

\* The nodes of the lines written to the log file.
LogNodes == {"A", "B"}

---------------------------------------------------------------------------
(* Initial state and actions *)

Init ==
    /\ config \in ConfigNames
    /\ now = 0
    /\ sm = NewStateMachine
    /\ rules = [r \in RuleNames |-> [is_active |-> FALSE, last_start_time |-> None]]
    /\ notifications = <<>>
    /\ is_running = FALSE
    /\ stop_event = FALSE
    /\ log_file = None
    /\ unread = <<>>
    /\ monitor_thread = None
    /\ threads = [w \in Threads |-> NoThread]
    /\ joining = FALSE
    /\ file_bytes = <<>>
    /\ log_file_position = 0
    /\ position = 0
    /\ returned = <<>>
    /\ loop_errors = 0
    /\ delivered = <<>>

\* Time passes: the next reading of the clock.
Tick ==
    /\ \E t \in ClockReadings :
          /\ t > now
          /\ \A u \in ClockReadings : u > now => t <= u
          /\ now' = t
    /\ UNCHANGED reader
    /\ UNCHANGED delivered
    /\ UNCHANGED loop_errors
    /\ UNCHANGED <<config, sm, rules, notifications>>
    /\ UNCHANGED lifecycle

ActivateState(state_name, trigger_node) ==
    /\ sm' = ActivateStateOp(sm, state_name, trigger_node, now).sm
    /\ Len(sm'.state_history) <= MaxHistory
    /\ UNCHANGED reader
    /\ UNCHANGED delivered
    /\ UNCHANGED loop_errors
    /\ UNCHANGED <<config, now, rules, notifications>>
    /\ UNCHANGED lifecycle

CheckTransition(state_name, node_name) ==
    /\ sm' = CheckTransitionOp(sm, state_name, node_name, now).sm
    /\ Len(sm'.state_history) <= MaxHistory
    /\ UNCHANGED reader
    /\ UNCHANGED delivered
    /\ UNCHANGED loop_errors
    /\ UNCHANGED <<config, now, rules, notifications>>
    /\ UNCHANGED lifecycle

CheckTimeouts ==
    /\ sm' = CheckTimeoutsOp(sm, now).sm
    /\ Len(sm'.state_history) <= MaxHistory
    /\ UNCHANGED reader
    /\ UNCHANGED delivered
    /\ UNCHANGED loop_errors
    /\ UNCHANGED <<config, now, rules, notifications>>
    /\ UNCHANGED lifecycle

EngineNext ==
    \/ Tick
    \/ \E state_name \in CallNames, node \in Nodes :
          ActivateState(state_name, node)
    \/ \E state_name \in CallNames, node \in Nodes :
          CheckTransition(state_name, node)
    \/ CheckTimeouts

\* Any sequence of calls of the engine's three operations.
EngineSpec == Init /\ [][EngineNext]_vars

Monitor == [sm |-> sm, rules |-> rules, sent |-> notifications]

\* The monitor thread processes one line carrying node_name.
ProcessLogLine(node_name) ==
    LET after == ProcessLogLineOp(Monitor, node_name, now)
    IN  /\ Len(after.sm.state_history) <= MaxLogHistory
        /\ Len(after.sent) <= MaxNotifications
        /\ sm' = after.sm
        /\ rules' = after.rules
        /\ notifications' = after.sent
        /\ UNCHANGED reader
        /\ UNCHANGED delivered
        /\ UNCHANGED loop_errors
        /\ UNCHANGED <<config, now>>
        /\ UNCHANGED lifecycle

\* The monitor thread runs _check_timeouts at the end of a cycle.
CheckTimeoutsAll ==
    LET after == CheckTimeoutsAllOp(Monitor, now)
    IN  /\ Len(after.sm.state_history) <= MaxLogHistory
        /\ Len(after.sent) <= MaxNotifications
        /\ sm' = after.sm
        /\ rules' = after.rules
        /\ notifications' = after.sent
        /\ UNCHANGED reader
        /\ UNCHANGED delivered
        /\ UNCHANGED loop_errors
        /\ UNCHANGED <<config, now>>
        /\ UNCHANGED lifecycle

Next ==
    \/ Tick
    \/ \E node_name \in Nodes : ProcessLogLine(node_name)
    \/ CheckTimeoutsAll

\* The monitor loop: lines and sweeps in any interleaving with time.
Spec == Init /\ [][Next]_vars

---------------------------------------------------------------------------
(* start_monitoring, stop_monitoring and the worker thread running         *)
(* _monitor_loop                                                           *)

\* The mutable fields of the EnhancedLogMonitor object, with the file and
\* the threads.
Service ==
    [is_running |-> is_running, stop_event |-> stop_event,
     log_file |-> log_file, unread |-> unread,
     monitor_thread |-> monitor_thread, threads |-> threads]

\* A _prepare_log_source that reports success whatever it finds.
PrepareLogSourceAlways(v, source) ==
    [ret |-> TRUE,
     service |-> [v EXCEPT !.log_file = <<"open">>, !.unread = <<>>]]

\* _prepare_log_source() on service v: the returned bool and the service
\* afterwards (an opened file is positioned at its end).
PrepareLogSource(v, source) ==
    IF source = "file"
    THEN [ret |-> TRUE,
          service |-> [v EXCEPT !.log_file = <<"open">>, !.unread = <<>>]]
    ELSE [ret |-> FALSE, service |-> v]

\* The thread object threading.Thread() gives: one that is not alive.
NewThread(v) ==
    CHOOSE w \in Threads :
        /\ v.threads[w].pc = "dead"
        /\ \A u \in Threads : v.threads[u].pc = "dead" => w <= u

\* A start_monitoring that does not look at is_running.
StartMonitoringAgain(v, source) ==
    LET prepared == PrepareLogSource(v, source)
    IN  IF ~prepared.ret
        THEN [ret |-> FALSE, service |-> prepared.service]
        ELSE [ret |-> TRUE,
              service |-> [prepared.service EXCEPT
                  !.stop_event = FALSE,
                  !.is_running = TRUE,
                  !.monitor_thread = <<NewThread(v)>>,
                  !.threads[NewThread(v)] =
                      [pc |-> "wait", new_lines |-> <<>>]]]

\* start_monitoring() on service v: the returned bool and the service
\* afterwards.
StartMonitoringOp(v, source) ==
    IF v.is_running
    THEN [ret |-> FALSE, service |-> v]
    ELSE LET prepared == PrepareLogSource(v, source)
         IN  IF ~prepared.ret
             THEN [ret |-> FALSE, service |-> prepared.service]
             ELSE [ret |-> TRUE,
                   service |-> [prepared.service EXCEPT
                       !.stop_event = FALSE,
                       !.is_running = TRUE,
                       !.monitor_thread = <<NewThread(v)>>,
                       !.threads[NewThread(v)] =
                           [pc |-> "wait", new_lines |-> <<>>]]]

\* _cleanup_log_source() and the two statements after it.
CleanupLogSource(v) ==
    [v EXCEPT !.log_file = None, !.unread = <<>>, !.is_running = FALSE]

\* stop_monitoring() on service v up to the point where it returns or
\* blocks in join(): ret is <<>> while it is blocked.
StopMonitoringOp(v) ==
    IF ~v.is_running
    THEN [ret |-> <<FALSE>>, service |-> v]
    ELSE LET stopping == [v EXCEPT !.stop_event = TRUE]
         IN  IF /\ v.monitor_thread # None
                /\ v.threads[v.monitor_thread[1]].pc # "dead"
             THEN [ret |-> None, service |-> stopping]
             ELSE [ret |-> <<TRUE>>, service |-> CleanupLogSource(stopping)]

\* stop_monitoring() on service v from the return of join() to its end.
JoinReturnsOp(v) ==
    [ret |-> <<TRUE>>, service |-> CleanupLogSource(v)]

\* The monitor's fields, the file and the threads take the values of v.
Becomes(v) ==
    /\ is_running' = v.is_running
    /\ stop_event' = v.stop_event
    /\ log_file' = v.log_file
    /\ unread' = v.unread
    /\ monitor_thread' = v.monitor_thread
    /\ threads' = v.threads

\* A writer appends one complete line carrying node_name to the log file:
\* it lies after the position of the handle, if there is one.
AppendLine(node_name) ==
    /\ Len(unread) < MaxUnread
    /\ unread' = IF log_file # None THEN Append(unread, node_name) ELSE unread
    /\ UNCHANGED reader
    /\ UNCHANGED delivered
    /\ UNCHANGED loop_errors
    /\ UNCHANGED <<config, now, sm, rules, notifications, is_running,
                   stop_event, log_file, monitor_thread, threads, joining>>

\* A start_monitoring that clears the state machine when it starts the
\* thread.
StartMonitoringResetsEngine(source) ==
    /\ ~joining
    /\ is_running \/ source # "file" \/ \E w \in Threads : ~IsAlive(w)
    /\ Becomes(StartMonitoringOp(Service, source).service)
    /\ sm' = IF StartMonitoringOp(Service, source).ret
             THEN NewStateMachine ELSE sm
    /\ UNCHANGED reader
    /\ UNCHANGED delivered
    /\ UNCHANGED loop_errors
    /\ UNCHANGED <<config, now, rules, notifications, joining>>

\* A call of start_monitoring(), the log source being as given.
StartMonitoring(source) ==
    /\ ~joining
    /\ is_running \/ source # "file" \/ \E w \in Threads : ~IsAlive(w)
    /\ Becomes(StartMonitoringOp(Service, source).service)
    /\ UNCHANGED reader
    /\ UNCHANGED delivered
    /\ UNCHANGED loop_errors
    /\ UNCHANGED <<config, now, sm, rules, notifications, joining>>

\* A call of stop_monitoring(), up to its return or to join().
StopMonitoring ==
    /\ ~joining
    /\ Becomes(StopMonitoringOp(Service).service)
    /\ joining' = (StopMonitoringOp(Service).ret = None)
    /\ UNCHANGED reader
    /\ UNCHANGED delivered
    /\ UNCHANGED loop_errors
    /\ UNCHANGED <<config, now, sm, rules, notifications>>

\* A join() without a timeout: it returns only when the thread has left
\* the loop.
JoinReturnsWhenThreadEnds ==
    /\ joining
    /\ threads[monitor_thread[1]].pc = "dead"
    /\ joining' = FALSE
    /\ Becomes(JoinReturnsOp(Service).service)
    /\ UNCHANGED reader
    /\ UNCHANGED delivered
    /\ UNCHANGED loop_errors
    /\ UNCHANGED <<config, now, sm, rules, notifications>>

\* join(timeout=5) returns and stop_monitoring runs to its end: the thread
\* has left the loop, or the five seconds ran out while it was inside a
\* cycle (a thread blocked in stop_event.wait leaves it at once).
JoinReturns ==
    /\ joining
    /\ threads[monitor_thread[1]].pc # "wait"
    /\ joining' = FALSE
    /\ Becomes(JoinReturnsOp(Service).service)
    /\ UNCHANGED reader
    /\ UNCHANGED delivered
    /\ UNCHANGED loop_errors
    /\ UNCHANGED <<config, now, sm, rules, notifications>>

\* stop_event.wait(monitor_interval) returns in thread w: the loop ends if
\* the event is set, and a cycle begins if it is not.
WaitReturns(w) ==
    /\ threads[w].pc = "wait"
    /\ threads' = [threads EXCEPT ![w] =
                      IF stop_event THEN NoThread ELSE [@ EXCEPT !.pc = "read"]]
    /\ UNCHANGED reader
    /\ UNCHANGED delivered
    /\ UNCHANGED loop_errors
    /\ UNCHANGED <<config, now, sm, rules, notifications, is_running,
                   stop_event, log_file, unread, monitor_thread, joining>>

\* _read_new_log_lines() in thread w: the lines after the position of the
\* handle, or no lines when log_file is None or closed.
ReadNewLogLines(w) ==
    /\ threads[w].pc = "read"
    /\ IF log_file # None
       THEN /\ threads' = [threads EXCEPT ![w] =
                              [pc |-> "lines", new_lines |-> unread]]
            /\ unread' = <<>>
       ELSE /\ threads' = [threads EXCEPT ![w] =
                              [pc |-> "lines", new_lines |-> <<>>]]
            /\ UNCHANGED unread
    /\ UNCHANGED reader
    /\ UNCHANGED delivered
    /\ UNCHANGED loop_errors
    /\ UNCHANGED <<config, now, sm, rules, notifications, is_running,
                   stop_event, log_file, monitor_thread, joining>>

\* One iteration of the for loop of _monitor_loop in thread w.
ProcessNextLine(w) ==
    /\ threads[w].pc = "lines"
    /\ threads[w].new_lines # <<>>
    /\ LET after == ProcessLogLineOp(Monitor, Head(threads[w].new_lines), now)
       IN  /\ Len(after.sm.state_history) <= MaxLoopHistory
           /\ sm' = after.sm
           /\ rules' = after.rules
           /\ notifications' = after.sent
    /\ threads' = [threads EXCEPT ![w].new_lines = Tail(@)]
    /\ UNCHANGED reader
    /\ UNCHANGED delivered
    /\ UNCHANGED loop_errors
    /\ UNCHANGED <<config, now, is_running, stop_event, log_file, unread,
                   monitor_thread, joining>>

\* A cycle that ends without the call of _check_timeouts.
CycleEndsWithoutSweep(w) ==
    /\ threads[w].pc = "lines"
    /\ threads[w].new_lines = <<>>
    /\ threads' = [threads EXCEPT ![w].pc = "wait"]
    /\ UNCHANGED reader
    /\ UNCHANGED delivered
    /\ UNCHANGED loop_errors
    /\ UNCHANGED <<config, now, sm, rules, notifications, is_running,
                   stop_event, log_file, unread, monitor_thread, joining>>

\* The call of _check_timeouts that ends a cycle of thread w.
CheckTimeoutsAfterLines(w) ==
    /\ threads[w].pc = "lines"
    /\ threads[w].new_lines = <<>>
    /\ LET after == CheckTimeoutsAllOp(Monitor, now)
       IN  /\ Len(after.sm.state_history) <= MaxLoopHistory
           /\ sm' = after.sm
           /\ rules' = after.rules
           /\ notifications' = after.sent
    /\ threads' = [threads EXCEPT ![w].pc = "wait"]
    /\ UNCHANGED reader
    /\ UNCHANGED delivered
    /\ UNCHANGED loop_errors
    /\ UNCHANGED <<config, now, is_running, stop_event, log_file, unread,
                   monitor_thread, joining>>

\* The monitor constructed on the configuration with the two-step rule.
LoopInit == Init /\ config = "service"

\* The clock, read while the service runs.
LoopTick == Tick /\ now < 669 * MaxLoopTicks

\* The caller starts the monitor again only when the thread of the run
\* before has left the loop.
RestartAfterExit(source) ==
    /\ is_running \/ \A w \in Threads : ~IsAlive(w)
    /\ StartMonitoring(source)

LoopNext ==
    \/ LoopTick
    \/ \E node_name \in LogNodes : AppendLine(node_name)
    \/ \E source \in LogSources : RestartAfterExit(source)
    \/ StopMonitoring
    \/ JoinReturns
    \/ \E w \in Threads : WaitReturns(w)
    \/ \E w \in Threads : ReadNewLogLines(w)
    \/ \E w \in Threads : ProcessNextLine(w)
    \/ \E w \in Threads : CheckTimeoutsAfterLines(w)

\* The monitor as it runs: a writer appending lines, a caller starting and
\* stopping the monitor (with one worker thread alive at a time), and the
\* worker thread.
LoopSpec == LoopInit /\ [][LoopNext]_vars

\* The call of _read_new_log_lines in thread w catches an exception of
\* its own: it returns no lines, with the handle where it was (kept) or at
\* the end of the file, and the cycle goes on.
ReadFails(w, kept) ==
    /\ threads[w].pc = "read"
    /\ log_file # None
    /\ threads' = [threads EXCEPT ![w] = [pc |-> "lines", new_lines |-> <<>>]]
    /\ unread' = IF kept THEN unread ELSE <<>>
    /\ UNCHANGED reader
    /\ UNCHANGED delivered
    /\ UNCHANGED loop_errors
    /\ UNCHANGED <<config, now, sm, rules, notifications, is_running,
                   stop_event, log_file, monitor_thread, joining>>

\* An exception that ends the thread in which it is raised.
CycleRaisesUncaught(w) ==
    /\ threads[w].pc \in {"read", "lines"}
    /\ loop_errors < MaxLoopErrors
    /\ threads' = [threads EXCEPT ![w] = NoThread]
    /\ loop_errors' = loop_errors + 1
    /\ UNCHANGED reader
    /\ UNCHANGED delivered
    /\ UNCHANGED <<config, now, sm, rules, notifications, is_running,
                   stop_event, log_file, unread, monitor_thread, joining>>

\* An exception raised inside the try block of the cycle of thread w, in
\* the read, in a line or in the sweep: the except clause prints it, what
\* was left of the cycle is skipped, and the loop goes back to
\* stop_event.wait.
CycleRaises(w) ==
    /\ threads[w].pc \in {"read", "lines"}
    /\ loop_errors < MaxLoopErrors
    /\ threads' = [threads EXCEPT ![w] = [pc |-> "wait", new_lines |-> <<>>]]
    /\ loop_errors' = loop_errors + 1
    /\ UNCHANGED reader
    /\ UNCHANGED delivered
    /\ UNCHANGED <<config, now, sm, rules, notifications, is_running,
                   stop_event, log_file, unread, monitor_thread, joining>>

FaultNext ==
    \/ LoopNext
    \/ \E w \in Threads, kept \in BOOLEAN : ReadFails(w, kept)
    \/ \E w \in Threads : CycleRaises(w)

\* The running monitor with cycles in which an exception is raised.
FaultSpec == LoopInit /\ [][FaultNext]_vars

\* A caller that starts and stops the monitor whenever it likes, also
\* while a thread of an earlier run is still alive.
RestartNext ==
    \/ \E node_name \in LogNodes : AppendLine(node_name)
    \/ \E source \in LogSources : StartMonitoring(source)
    \/ StopMonitoring
    \/ JoinReturns
    \/ \E w \in Threads : WaitReturns(w)
    \/ \E w \in Threads : ReadNewLogLines(w)
    \/ \E w \in Threads : ProcessNextLine(w)
    \/ \E w \in Threads : CheckTimeoutsAfterLines(w)

\* The monitor started and stopped at any moment, the clock standing still.
RestartSpec == LoopInit /\ [][RestartNext]_vars

\* The running monitor with what the scheduler guarantees: a join that is
\* blocked returns (the thread has ended, or the five seconds have run
\* out), and a thread blocked in stop_event.wait comes back from it.
\* Nothing makes a thread that is inside a cycle go on.
StopSpec ==
    /\ LoopInit
    /\ [][LoopNext]_vars
    /\ WF_vars(JoinReturns)
    /\ \A w \in Threads : WF_vars(WaitReturns(w))

\* The writer appends a line only when the one before has been processed
\* and the history has room for what the line and the sweep after it can
\* append: two entries for a line that activates and advances a state, one
\* for its timeout.
AppendLineWithRoom(node_name) ==
    /\ unread = <<>>
    /\ \A w \in Threads : threads[w].new_lines = <<>>
    /\ Len(sm.state_history) + 3 <= MaxLoopHistory
    /\ AppendLine(node_name)

SweepNext ==
    \/ LoopTick
    \/ \E node_name \in LogNodes : AppendLineWithRoom(node_name)
    \/ \E source \in LogSources : RestartAfterExit(source)
    \/ StopMonitoring
    \/ JoinReturns
    \/ \E w \in Threads : WaitReturns(w)
    \/ \E w \in Threads : ReadNewLogLines(w)
    \/ \E w \in Threads : ProcessNextLine(w)
    \/ \E w \in Threads : CheckTimeoutsAfterLines(w)

\* The running monitor with a worker that keeps running its cycles and a
\* clock that goes on: stop_event.wait returns after monitor_interval, each
\* statement of the cycle is followed by the next, and time passes.  The
\* caller may stop and start the monitor, or not.
SweepSpec ==
    /\ LoopInit
    /\ [][SweepNext]_vars
    /\ WF_vars(LoopTick)
    /\ \A w \in Threads :
          /\ WF_vars(WaitReturns(w))
          /\ WF_vars(ReadNewLogLines(w))
          /\ WF_vars(ProcessNextLine(w))
          /\ WF_vars(CheckTimeoutsAfterLines(w))

---------------------------------------------------------------------------
(* The log file and _read_new_log_lines, byte by byte                      *)
(*                                                                         *)
(* The file is opened in text mode with encoding utf-8.  Its content is a  *)
(* sequence of bytes; the handle's position (tell) is a byte offset, while *)
(* the strings read() returns are sequences of characters.                 *)

\* What a writer appends in one write: a letter, a space, a line end, or
\* the two bytes of a two-byte character.
Writes == {<<"a">>, <<" ">>, <<"\n">>, <<"C3", "A9">>}

\* What the file holds when the monitor opens it.
OldContents == {<<>>, <<"a", "\n">>}

\* The utf-8 decoder of the text handle: the characters of the bytes, or a
\* UnicodeDecodeError when the bytes start inside a two-byte character.
RECURSIVE Utf8Decode(_)
Utf8Decode(bs) ==
    IF bs = <<>> THEN [ok |-> TRUE, chars |-> <<>>]
    ELSE IF Head(bs) = "C3"
    THEN IF Len(bs) < 2 \/ bs[2] # "A9"
         THEN [ok |-> FALSE, chars |-> <<>>]
         ELSE LET rest == Utf8Decode(SubSeq(bs, 3, Len(bs)))
              IN  [ok |-> rest.ok, chars |-> <<"e_acute">> \o rest.chars]
    ELSE IF Head(bs) = "A9"
    THEN [ok |-> FALSE, chars |-> <<>>]
    ELSE LET rest == Utf8Decode(Tail(bs))
         IN  [ok |-> rest.ok, chars |-> <<Head(bs)>> \o rest.chars]

\* str.split('\n'): the pieces between the line ends, one more than there
\* are line ends.
RECURSIVE Split(_)
Split(chars) ==
    IF \A i \in 1..Len(chars) : chars[i] # "\n"
    THEN <<chars>>
    ELSE LET i == CHOOSE k \in 1..Len(chars) :
                     /\ chars[k] = "\n"
                     /\ \A j \in 1..(k - 1) : chars[j] # "\n"
         IN  <<SubSeq(chars, 1, i - 1)>> \o Split(SubSeq(chars, i + 1, Len(chars)))

\* line.strip() is the empty string.
IsBlank(line) == \A i \in 1..Len(line) : line[i] = " "

\* The steps of a poll that call the operating system.
IOSteps == {"tell", "seek_end", "tell_end", "seek_back", "read"}

\* self.log_file.read() followed by the split, the put-back of the last
\* piece and the filter: the lines returned and the position left.
SplitNewContent(new_content, end_position) ==
    LET pieces == Split(new_content)
        put_back == new_content[Len(new_content)] # "\n" /\ Len(pieces) > 1
        incomplete_line == pieces[Len(pieces)]
        lines == IF put_back THEN SubSeq(pieces, 1, Len(pieces) - 1) ELSE pieces
    IN  [ret |-> SelectSeq(lines, LAMBDA line : ~IsBlank(line)),
         position |-> IF put_back
                      THEN end_position - Len(incomplete_line)
                      ELSE end_position]

\* _read_new_log_lines on the handle, with the step at which the operating
\* system fails (or "none"); consumed says whether a failing read had moved
\* the position before it failed.  Every exception is caught and gives [].
ReadNewLogLinesOp(handle, bytes, current_position, fault, consumed) ==
    LET end_position == Len(bytes)
        decoded == Utf8Decode(SubSeq(bytes, current_position + 1, end_position))
    IN  IF handle = None \/ fault \in {"tell", "seek_end"}
        THEN [ret |-> <<>>, position |-> current_position]
        ELSE IF fault = "tell_end" \/ end_position <= current_position
        THEN [ret |-> <<>>, position |-> end_position]
        ELSE IF fault = "seek_back"
        THEN [ret |-> <<>>, position |-> end_position]
        ELSE IF fault = "read"
        THEN [ret |-> <<>>,
              position |-> IF consumed THEN end_position ELSE current_position]
        ELSE IF ~decoded.ok
        THEN [ret |-> <<>>, position |-> end_position]
        ELSE SplitNewContent(decoded.chars, end_position)

\* After _prepare_log_source on an existing file: the handle is open and
\* at the end of what the file held.
ReaderInit ==
    /\ config = "service"
    /\ now = 0
    /\ sm = NewStateMachine
    /\ rules = [r \in RuleNames |-> [is_active |-> FALSE, last_start_time |-> None]]
    /\ notifications = <<>>
    /\ is_running = FALSE
    /\ stop_event = FALSE
    /\ log_file = <<"open">>
    /\ unread = <<>>
    /\ monitor_thread = None
    /\ threads = [w \in Threads |-> NoThread]
    /\ joining = FALSE
    /\ file_bytes \in OldContents
    /\ log_file_position = Len(file_bytes)
    /\ position = Len(file_bytes)
    /\ returned = <<>>
    /\ loop_errors = 0
    /\ delivered = <<>>

\* The application that writes the log appends to the file.
Write(chars) ==
    /\ Len(file_bytes) + Len(chars) <= MaxFileBytes
    /\ file_bytes' = file_bytes \o chars
    /\ UNCHANGED <<log_file_position, position, returned, loop_errors,
                   delivered>>
    /\ UNCHANGED <<config, now, sm, rules, notifications>>
    /\ UNCHANGED lifecycle

\* One call of _read_new_log_lines.
Poll(fault, consumed) ==
    LET polled == ReadNewLogLinesOp(log_file, file_bytes, position, fault, consumed)
    IN  /\ position' = polled.position
        /\ returned' = returned \o polled.ret
        /\ UNCHANGED <<file_bytes, log_file_position, loop_errors, delivered>>
        /\ UNCHANGED <<config, now, sm, rules, notifications>>
        /\ UNCHANGED lifecycle

ReaderNext ==
    \/ \E chars \in Writes : Write(chars)
    \/ \E fault \in IOSteps \cup {"none"}, consumed \in BOOLEAN :
          Poll(fault, consumed)

\* The reader alone: a writer appending to the file and the polls of the
\* open handle, each of which may fail at one of its steps.
ReaderSpec == ReaderInit /\ [][ReaderNext]_vars

---------------------------------------------------------------------------
(* The engine statement by statement, and the status queries               *)
(*                                                                         *)
(* The engine has no lock: a status query made from another thread reads   *)
(* the machine as it is after any statement of the call the worker thread  *)
(* is executing.                                                           *)

\* The machine after each statement of _deactivate_state (lines 121-126).
DeactivateStateStatements(m, state_name, reason, t) ==
    IF state_name \notin Range(m.active_states)
    THEN <<>>
    ELSE LET m1 == [m EXCEPT !.is_active[state_name] = FALSE]
             m2 == [m1 EXCEPT !.last_activation_time[state_name] = None]
             m3 == [m2 EXCEPT !.current_transition_index[state_name] = 0]
             m4 == [m3 EXCEPT !.active_states = DictDel(@, state_name)]
             m5 == [m4 EXCEPT !.state_history =
                                  Append(@, HistoryEntry(state_name, reason, t))]
         IN  <<m1, m2, m3, m4, m5>>

\* The machine after each statement of check_transition (lines 85-95).
CheckTransitionStatements(m, state_name, node_name, t) ==
    IF state_name \notin Range(m.active_states)
    THEN <<>>
    ELSE LET transitions == States[state_name].transitions
             index == m.current_transition_index[state_name]
             m1 == [m EXCEPT !.current_transition_index[state_name] = index + 1]
             m2 == [m1 EXCEPT !.last_activation_time[state_name] = <<t>>]
             m3 == [m2 EXCEPT !.state_history = Append(@, HistoryEntry(state_name,
                                  [kind |-> "TRANSITION",
                                   to |-> transitions[index + 2].target_node], t))]
         IN  IF Len(transitions) = 0 \/ index >= Len(transitions)
             THEN <<>>
             ELSE IF node_name # transitions[index + 1].target_node
             THEN <<>>
             ELSE IF index + 1 >= Len(transitions)
             THEN <<m1>> \o DeactivateStateStatements(m1, state_name,
                                [kind |-> "COMPLETED", by |-> node_name], t)
             ELSE <<m1, m2, m3>>

\* The machine after each statement of activate_state (lines 54-64).
ActivateStateStatements(m, state_name, trigger_node, t) ==
    IF state_name \notin StateNames
    THEN <<>>
    ELSE IF trigger_node # States[state_name].start_node
    THEN <<>>
    ELSE IF m.is_active[state_name]
    THEN LET m1 == [m EXCEPT !.last_activation_time[state_name] = <<t>>]
             m2 == [m1 EXCEPT !.state_history = Append(@, HistoryEntry(state_name,
                                  [kind |-> "RESET", by |-> trigger_node], t))]
         IN  <<m1, m2>>
    ELSE LET m1 == [m EXCEPT !.is_active[state_name] = TRUE]
             m2 == [m1 EXCEPT !.last_activation_time[state_name] = <<t>>]
             m3 == [m2 EXCEPT !.current_transition_index[state_name] = 0]
             m4 == [m3 EXCEPT !.active_states = DictSet(@, state_name)]
             m5 == [m4 EXCEPT !.state_history = Append(@, HistoryEntry(state_name,
                                  [kind |-> "ACTIVATED", by |-> trigger_node], t))]
         IN  <<m1, m2, m3, m4, m5>>

\* get_state_status(state_name) at time t, for a configured state: the
\* entries of the returned dict that depend on the instance, an entry that
\* is absent being None.
GetStateStatusOp(m, state_name, t) ==
    LET transitions == States[state_name].transitions
        index == m.current_transition_index[state_name]
        active == m.is_active[state_name]
        has_target == active /\ index < Len(transitions)
        has_elapsed == has_target /\ m.last_activation_time[state_name] # None
        elapsed == IntOf(TotalSecondsTimes1000(
                             t - m.last_activation_time[state_name][1]))
        remaining == transitions[index + 1].timeout_ms - elapsed
    IN  [is_active |-> active,
         current_transition_index |-> IF active THEN <<index>> ELSE None,
         current_target |-> IF has_target
                            THEN <<transitions[index + 1].target_node>>
                            ELSE None,
         current_timeout |-> IF has_target
                             THEN <<transitions[index + 1].timeout_ms>>
                             ELSE None,
         elapsed_ms |-> IF has_elapsed THEN <<elapsed>> ELSE None,
         remaining_ms |-> IF has_elapsed
                          THEN <<IF remaining > 0 THEN remaining ELSE 0>>
                          ELSE None]

\* get_detailed_status() at time t on machine m and legacy rules rs: the
\* names get_status lists as active and the details of every state.
GetDetailedStatusOp(m, rs, t) ==
    [active_legacy_rule_names |->
         SelectSeq(RuleOrder, LAMBDA r : rs[r].is_active),
     active_state_rule_names |-> m.active_states,
     state_details |-> [s \in StateNames |-> GetStateStatusOp(m, s, t)]]

---------------------------------------------------------------------------
(* The handlers of the monitor statement by statement: the accumulator     *)
(* [sm, rules, sent] after each statement, a call of the notifier being    *)
(* the statement that appends to sent.                                     *)

\* Lines 266-272 of _check_timeouts for one legacy rule.
LegacyTimeoutStatements(acc, rule_name, t) ==
    LET r == acc.rules[rule_name]
        elapsed_ms == TotalSecondsTimes1000(t - r.last_start_time[1])
        a1 == [acc EXCEPT !.sent = Append(@, SendTimeoutAlert(rule_name,
                                       r.last_start_time, elapsed_ms, t))]
        a2 == [a1 EXCEPT !.rules[rule_name].is_active = FALSE]
        a3 == [a2 EXCEPT !.rules[rule_name].last_start_time = None]
    IN  IF ~r.is_active \/ r.last_start_time = None
        THEN <<>>
        ELSE IF FloatGreater(elapsed_ms, Rules[rule_name].timeout_ms)
        THEN <<a1, a2, a3>>
        ELSE <<>>

\* Lines 228-236 of _check_legacy_rules: the node ends an active rule.
LegacyCompletionStatements(acc, rule_name, node_name, t) ==
    LET rule == Rules[rule_name]
        r == acc.rules[rule_name]
        a1 == [acc EXCEPT !.sent = Append(@, SendRuleCompleted(rule_name,
                       TotalSecondsTimes1000(t - r.last_start_time[1]), t))]
        a2 == [a1 EXCEPT !.rules[rule_name].is_active = FALSE]
        a3 == [a2 EXCEPT !.rules[rule_name].last_start_time = None]
    IN  IF /\ rule.start_node # rule.end_node
           /\ ~(node_name = rule.start_node /\ ~r.is_active)
           /\ node_name = rule.end_node /\ r.is_active
        THEN <<a1, a2, a3>>
        ELSE <<>>

\* Lines 247-254 of _check_state_machine_rules for one state of the
\* snapshot: the statements of check_transition, then the call.
StateCompletionStatements(acc, state_name, node_name, t) ==
    LET moved == CheckTransitionStatements(acc.sm, state_name, node_name, t)
        result == CheckTransitionOp(acc.sm, state_name, node_name, t)
        inside == [i \in 1..Len(moved) |-> [acc EXCEPT !.sm = moved[i]]]
    IN  IF result.ret # None /\ result.ret[1]
        THEN Append(inside,
                 [acc EXCEPT
                    !.sm = result.sm,
                    !.sent = Append(@, SendStateCompleted(state_name, node_name, t))])
        ELSE inside

RECURSIVE SendStateTimeoutsStatements(_, _, _)
\* Lines 276-279 of _check_timeouts: one call for each timeout returned.
SendStateTimeoutsStatements(acc, timeouts, t) ==
    IF timeouts = <<>>
    THEN <<>>
    ELSE LET a1 == [acc EXCEPT !.sent = Append(@,
                       SendStateTimeout(acc.sm, Head(timeouts)[1],
                                        Head(timeouts)[2], t))]
         IN  <<a1>> \o SendStateTimeoutsStatements(a1, Tail(timeouts), t)

\* Lines 275-279 of _check_timeouts, from the accumulator the loop over
\* the legacy rules left: check_timeouts(), then the calls.
StateTimeoutStatements(acc, t) ==
    LET swept == CheckTimeoutsOp(acc.sm, t)
        a1 == [acc EXCEPT !.sm = swept.sm]
    IN  <<a1>> \o SendStateTimeoutsStatements(a1, swept.timeouts, t)

---------------------------------------------------------------------------
(* WatchdogNotifier.send_notification and the value it returns             *)

\* The platforms in the order get_available_notifiers lists them.
Platforms == <<"telegram", "wechat">>

\* What the configuration makes available, and default_ext_notify.
AvailablePlatforms == {SelectSeq(Platforms, LAMBDA x : x \in chosen) :
                          chosen \in SUBSET Range(Platforms)}

DefaultPlatforms == Range(Platforms) \cup {"none"}

\* What trying one platform gives: send_message returns True, it returns
\* False (it catches the errors of requests.post), or the attempt raises.
TransportResults == {"sent", "failed", "raised"}

\* Lines 112-121: the default platform first when it is available.
TryOrder(available, default_platform) ==
    (IF default_platform \in Range(available)
     THEN <<default_platform>> ELSE <<>>)
        \o SelectSeq(available, LAMBDA x : x # default_platform)

RECURSIVE TryPlatforms(_, _)
\* Lines 124-138: the first platform that sends ends the loop.
TryPlatforms(try_order, results) ==
    IF try_order = <<>>
    THEN FALSE
    ELSE IF results[Head(try_order)] = "sent"
    THEN TRUE
    ELSE TryPlatforms(Tail(try_order), results)

\* send_notification(message): the returned bool.
SendNotificationOp(available, default_platform, results) ==
    IF available = <<>>
    THEN FALSE
    ELSE TryPlatforms(TryOrder(available, default_platform), results)

\* The values a call of send_notification can return.
DeliveryOutcomes ==
    {SendNotificationOp(available, default_platform, results) :
        available \in AvailablePlatforms,
        default_platform \in DefaultPlatforms,
        results \in [Range(Platforms) -> TransportResults]}

\* A handler that undoes its changes of the rules when one of its
\* notifications was not delivered.
AfterNotifierReturnsRollingBack(before, after, outcomes) ==
    IF \E i \in 1..Len(outcomes) : ~outcomes[i]
    THEN [before EXCEPT !.sent = after.sent]
    ELSE after

\* The accumulator a handler leaves, its notifier calls having returned
\* outcomes: the call statements (lines 226, 232, 254, 269 and 279 of
\* log_monitor.py) do not read the returned value.
AfterNotifierReturns(before, after, outcomes) == after

\* The monitor thread processes one line carrying node_name, each call of
\* the notifier returning what the transports give.
ProcessLogLineDelivering(node_name) ==
    LET handled == ProcessLogLineOp(Monitor, node_name, now)
    IN  \E outcomes \in [1..(Len(handled.sent) - Len(notifications))
                            -> DeliveryOutcomes] :
           LET after == AfterNotifierReturns(Monitor, handled, outcomes)
           IN  /\ Len(after.sm.state_history) <= MaxLogHistory
               /\ Len(delivered) + Len(outcomes) <= MaxDelivered
               /\ sm' = after.sm
               /\ rules' = after.rules
               /\ notifications' = after.sent
               /\ delivered' = delivered \o outcomes
               /\ UNCHANGED reader
               /\ UNCHANGED loop_errors
               /\ UNCHANGED <<config, now>>
               /\ UNCHANGED lifecycle

\* The monitor thread runs _check_timeouts, each call of the notifier
\* returning what the transports give.
CheckTimeoutsAllDelivering ==
    LET handled == CheckTimeoutsAllOp(Monitor, now)
    IN  \E outcomes \in [1..(Len(handled.sent) - Len(notifications))
                            -> DeliveryOutcomes] :
           LET after == AfterNotifierReturns(Monitor, handled, outcomes)
           IN  /\ Len(after.sm.state_history) <= MaxLogHistory
               /\ Len(delivered) + Len(outcomes) <= MaxDelivered
               /\ sm' = after.sm
               /\ rules' = after.rules
               /\ notifications' = after.sent
               /\ delivered' = delivered \o outcomes
               /\ UNCHANGED reader
               /\ UNCHANGED loop_errors
               /\ UNCHANGED <<config, now>>
               /\ UNCHANGED lifecycle

\* The monitor with legacy rules or with state rules.
DeliveryInit == Init /\ config \in {"rules", "states"}

DeliveryNext ==
    \/ Tick
    \/ \E node_name \in Nodes : ProcessLogLineDelivering(node_name)
    \/ CheckTimeoutsAllDelivering

\* Lines and sweeps in any interleaving with time, every notification
\* delivered or not.
DeliverySpec == DeliveryInit /\ [][DeliveryNext]_vars

---------------------------------------------------------------------------
(* Properties *)

\* The number of history entries of one kind for one rule.
CountHistory(h, state_name, kind) ==
    Cardinality({i \in 1..Len(h) : h[i][1] = state_name /\ h[i][2].kind = kind})

\* The number of notifier calls of one kind for one rule.
CountCalls(sent, call, name) ==
    Cardinality({i \in 1..Len(sent) : sent[i].call = call /\ sent[i].rule = name})

\* The positions of the notifier calls made by the step being taken.
NewCalls == (Len(notifications) + 1)..Len(notifications')

\* The step an active state is waiting on.
CurrentStep(m, state_name) ==
    States[state_name].transitions[m.current_transition_index[state_name] + 1]

LastEntry(h) == h[Len(h)]

\* The time of the last ACTIVATED, RESET or TRANSITION entry of a rule.
LastEventTime(h, state_name) ==
    LET at == {i \in 1..Len(h) :
                  /\ h[i][1] = state_name
                  /\ h[i][2].kind \in {"ACTIVATED", "RESET", "TRANSITION"}}
        last == CHOOSE i \in at : \A j \in at : j <= i
    IN  h[last][3]

\* The time of the last ACTIVATED entry of a rule.
ActivatedAt(h, state_name) ==
    LET at == {i \in 1..Len(h) :
                  h[i][1] = state_name /\ h[i][2].kind = "ACTIVATED"}
        last == CHOOSE i \in at : \A j \in at : j <= i
    IN  h[last][3]

\* C1: after any sequence of activate_state, check_transition and
\* check_timeouts calls, every rule name occurs at most once in the active
\* set, only configured rules occur in it, and a rule is in the active set
\* exactly when its is_active flag is true.
C1_OneActiveInstance ==
    /\ Range(sm.active_states) \subseteq StateNames
    /\ \A s \in StateNames :
          /\ Cardinality({i \in 1..Len(sm.active_states) :
                             sm.active_states[i] = s}) <= 1
          /\ (s \in Range(sm.active_states)) <=> sm.is_active[s]

\* C1 witness: both rules are active and one of them has just been reset.
C1_Witness ==
    /\ config = "states"
    /\ Len(sm.active_states) = 2
    /\ sm.is_active["R"] /\ sm.is_active["H"]
    /\ LastEntry(sm.state_history)[2].kind = "RESET"

\* C2: activate_state with the start node of a rule that is already active
\* is a reset: last_activation_time becomes now, current_transition_index
\* is unchanged, one RESET entry is appended to the history, the active set
\* and the flags are unchanged (no second instance) and no notifier call is
\* made.
C2_TriggerResetsActiveRule ==
    [][\A s \in StateNames, n \in Nodes :
          (ActivateState(s, n) /\ n = States[s].start_node /\ sm.is_active[s])
          => /\ sm'.last_activation_time[s] = <<now>>
             /\ sm'.current_transition_index[s] = sm.current_transition_index[s]
             /\ sm'.state_history = Append(sm.state_history,
                                       <<s, [kind |-> "RESET", by |-> n], now>>)
             /\ sm'.active_states = sm.active_states
             /\ sm'.is_active = sm.is_active
             /\ notifications' = notifications]_vars

\* C2 witness: a rule waiting on its second step has just been reset, some
\* time after it reached that step.
C2_Witness ==
    /\ config = "states"
    /\ sm.is_active["R"]
    /\ sm.current_transition_index["R"] = 1
    /\ LastEntry(sm.state_history) = <<"R", [kind |-> "RESET", by |-> "A"], now>>
    /\ sm.last_activation_time["R"] = <<now>>
    /\ \E i \in 1..Len(sm.state_history) :
          /\ sm.state_history[i][2].kind = "TRANSITION"
          /\ sm.state_history[i][3] < now

\* C3: activate_state with the start node of a rule that is not active
\* creates the instance: current_transition_index = 0, last_activation_time
\* = now, the rule is added to the active set and flagged active, and
\* exactly one entry, ACTIVATED, is appended to the history.
C3_TriggerCreatesInstance ==
    [][\A s \in StateNames, n \in Nodes :
          (ActivateState(s, n) /\ n = States[s].start_node /\ ~sm.is_active[s])
          => /\ sm'.current_transition_index[s] = 0
             /\ sm'.last_activation_time[s] = <<now>>
             /\ sm'.active_states = Append(sm.active_states, s)
             /\ sm'.is_active = [sm.is_active EXCEPT ![s] = TRUE]
             /\ sm'.state_history = Append(sm.state_history,
                                       <<s, [kind |-> "ACTIVATED", by |-> n], now>>)]_vars

\* C3 witness: a rule that was active before and ended has just been
\* created again.
C3_Witness ==
    /\ config = "states"
    /\ sm.is_active["R"]
    /\ LastEntry(sm.state_history) = <<"R", [kind |-> "ACTIVATED", by |-> "A"], now>>
    /\ \E i \in 1..Len(sm.state_history) :
          /\ sm.state_history[i][1] = "R"
          /\ sm.state_history[i][2].kind \in {"COMPLETED", "TIMEOUT"}

\* C4: whenever processing a line creates a new instance of a state-machine
\* rule (an ACTIVATED entry is appended for it), exactly one activation
\* call carrying the rule name, its start node and the timeout of its first
\* step is made to the notifier by that step.
C4_ActivationCallback ==
    [][\A s \in StateNames :
          CountHistory(sm'.state_history, s, "ACTIVATED")
              > CountHistory(sm.state_history, s, "ACTIVATED")
          => /\ Cardinality({i \in NewCalls :
                    /\ notifications'[i].call = "send_rule_activated"
                    /\ notifications'[i].rule = s}) = 1
             /\ \A i \in NewCalls :
                    (/\ notifications'[i].call = "send_rule_activated"
                     /\ notifications'[i].rule = s)
                    => /\ notifications'[i].start_node = States[s].start_node
                       /\ notifications'[i].timeout
                              = States[s].transitions[1].timeout_ms]_vars

\* C5: check_transition with the target node of the current step of an
\* active rule, that step not being the last, increments
\* current_transition_index by exactly 1, sets last_activation_time = now,
\* appends one TRANSITION entry and leaves the rule in the active set.
C5_AdvanceToNextStep ==
    [][\A s \in StateNames, n \in Nodes :
          (/\ CheckTransition(s, n)
           /\ s \in Range(sm.active_states)
           /\ sm.current_transition_index[s] + 1 < Len(States[s].transitions)
           /\ n = CurrentStep(sm, s).target_node)
          => /\ sm'.current_transition_index[s]
                    = sm.current_transition_index[s] + 1
             /\ sm'.last_activation_time[s] = <<now>>
             /\ sm'.state_history = Append(sm.state_history,
                    <<s, [kind |-> "TRANSITION",
                          to |-> CurrentStep(sm', s).target_node], now>>)
             /\ sm'.active_states = sm.active_states
             /\ sm'.is_active[s]]_vars

\* C5 witness: a rule has just advanced to its third step, later than it
\* was activated.
C5_Witness ==
    /\ config = "states"
    /\ sm.is_active["R"]
    /\ sm.current_transition_index["R"] = 2
    /\ LastEntry(sm.state_history) = <<"R", [kind |-> "TRANSITION", to |-> "C"], now>>
    /\ sm.last_activation_time["R"] = <<now>>
    /\ ActivatedAt(sm.state_history, "R") < now

\* C6: when a line's node is the target of the last step of a rule that is
\* active when the transitions are checked, the rule is completed: it
\* leaves the active set, exactly one COMPLETED entry is appended for it and
\* exactly one send_state_completed call is made for it.
C6_LastStepCompletes ==
    [][\A n \in Nodes :
          ProcessLogLine(n)
          => LET triggered == ActivateStates(Monitor, StateOrder, n, now).sm
             IN  \A s \in Range(triggered.active_states) :
                    (/\ triggered.current_transition_index[s] + 1
                            = Len(States[s].transitions)
                     /\ n = CurrentStep(triggered, s).target_node)
                    => /\ s \notin Range(sm'.active_states)
                       /\ ~sm'.is_active[s]
                       /\ CountHistory(sm'.state_history, s, "COMPLETED")
                            = CountHistory(sm.state_history, s, "COMPLETED") + 1
                       /\ CountCalls(notifications', "send_state_completed", s)
                            = CountCalls(notifications, "send_state_completed", s) + 1
                       /\ \A i \in NewCalls :
                              notifications'[i].rule = s
                              => notifications'[i].call = "send_state_completed"]_vars

\* C6 witness: the three-step rule has just been completed by its last
\* node and the notifier was called for it.
C6_Witness ==
    /\ config = "states"
    /\ ~sm.is_active["R"]
    /\ sm.state_history # <<>>
    /\ LastEntry(sm.state_history) = <<"R", [kind |-> "COMPLETED", by |-> "C"], now>>
    /\ CountHistory(sm.state_history, "R", "TRANSITION") = 2
    /\ notifications # <<>>
    /\ LastEntry(notifications).call = "send_state_completed"
    /\ LastEntry(notifications).rule = "R"

\* C7: every completion call made for a state-machine rule carries the
\* total elapsed time since the instance was activated: the time of the
\* completion minus the time of its ACTIVATED entry.
C7_CompletionCarriesTotalElapsed ==
    [][\A i \in NewCalls :
          notifications'[i].call = "send_state_completed"
          => /\ "elapsed" \in DOMAIN notifications'[i]
             /\ notifications'[i].elapsed
                    = now - ActivatedAt(sm'.state_history, notifications'[i].rule)]_vars

\* C8: a sweep removes an active instance if and only if now minus its
\* last_activation_time is strictly greater than the timeout_ms of its
\* current step (an instance whose elapsed time equals the timeout stays
\* active); a removed instance gets exactly one TIMEOUT entry and exactly
\* one timeout call, an instance that stays gets none.
C8_SweepRemovesIffElapsedExceeds ==
    [][CheckTimeoutsAll
       => \A s \in Range(sm.active_states) :
             LET elapsed == now - sm.last_activation_time[s][1]
                 removed == s \notin Range(sm'.active_states)
                 new_entries == CountHistory(sm'.state_history, s, "TIMEOUT")
                                  - CountHistory(sm.state_history, s, "TIMEOUT")
                 new_calls == CountCalls(notifications', "send_state_timeout", s)
                                - CountCalls(notifications, "send_state_timeout", s)
             IN  /\ removed <=> elapsed > CurrentStep(sm, s).timeout_ms
                 /\ new_entries = (IF removed THEN 1 ELSE 0)
                 /\ new_calls = (IF removed THEN 1 ELSE 0)]_vars

\* C9: the timeout call made for an instance a sweep removes after its
\* deadline has passed reports the target_node and timeout_ms of the step
\* the instance was waiting on when the sweep ran.
C9_TimeoutReportsWaitedStep ==
    [][CheckTimeoutsAll
       => \A s \in Range(sm.active_states) :
             (/\ s \notin Range(sm'.active_states)
              /\ now - sm.last_activation_time[s][1] > CurrentStep(sm, s).timeout_ms)
             => \E i \in NewCalls :
                   /\ notifications'[i].call = "send_state_timeout"
                   /\ notifications'[i].rule = s
                   /\ notifications'[i].waiting = <<CurrentStep(sm, s).target_node>>
                   /\ notifications'[i].timeout = <<CurrentStep(sm, s).timeout_ms>>]_vars

\* C10: the deadline of a step runs from the most recent activation, reset
\* or transition recorded for the instance, not from its original
\* activation: a sweep at time now removes an active instance if and only
\* if now minus the time of that most recent event is greater than the
\* timeout_ms of the current step, so the first sweep for which this holds
\* removes it.
C10_DeadlineFromLastEvent ==
    [][CheckTimeouts
       => \A s \in Range(sm.active_states) :
             (s \notin Range(sm'.active_states)
              /\ CountHistory(sm'.state_history, s, "TIMEOUT")
                   = CountHistory(sm.state_history, s, "TIMEOUT") + 1)
             <=> now - LastEventTime(sm.state_history, s)
                    > CurrentStep(sm, s).timeout_ms]_vars

\* C11: a rule whose targets arrive in order, each no later than the
\* timeout_ms of its step after the previous activation, reset or
\* transition, runs to completion whatever sweeps are interleaved: a sweep
\* made while now minus the time of that previous event does not exceed the
\* timeout of the current step leaves the instance active, appends no
\* TIMEOUT entry and makes no timeout call for it, and a line carrying the
\* current target advances the instance or, at the last step, completes it
\* with exactly one COMPLETED entry.
C11_InTimeSequenceCompletes ==
    [][/\ CheckTimeoutsAll
          => \A s \in Range(sm.active_states) :
                now - LastEventTime(sm.state_history, s)
                    <= CurrentStep(sm, s).timeout_ms
                => /\ s \in Range(sm'.active_states)
                   /\ sm'.current_transition_index[s]
                          = sm.current_transition_index[s]
                   /\ CountHistory(sm'.state_history, s, "TIMEOUT")
                          = CountHistory(sm.state_history, s, "TIMEOUT")
                   /\ CountCalls(notifications', "send_state_timeout", s)
                          = CountCalls(notifications, "send_state_timeout", s)
       /\ \A n \in Nodes :
             ProcessLogLine(n)
             => LET triggered == ActivateStates(Monitor, StateOrder, n, now).sm
                IN  \A s \in Range(triggered.active_states) :
                       n = CurrentStep(triggered, s).target_node
                       => /\ CountHistory(sm'.state_history, s, "TIMEOUT")
                                = CountHistory(sm.state_history, s, "TIMEOUT")
                          /\ IF triggered.current_transition_index[s] + 1
                                    = Len(States[s].transitions)
                             THEN /\ ~sm'.is_active[s]
                                  /\ CountHistory(sm'.state_history, s, "COMPLETED")
                                       = CountHistory(sm.state_history, s, "COMPLETED") + 1
                             ELSE /\ sm'.is_active[s]
                                  /\ sm'.current_transition_index[s]
                                       = triggered.current_transition_index[s] + 1]_vars

\* C12: the sweep is idempotent with respect to timeouts.  Whenever a sweep
\* has run and a second sweep follows it with no line processed in between,
\* at the same or at any later time, the two sweeps together append at most
\* one TIMEOUT entry and make at most one timeout call for each rule, and a
\* rule the first sweep removed gets no entry and no call from the second.
C12_SweepIdempotent ==
    [][CheckTimeoutsAll
       => \A t \in ClockReadings :
             t >= now
             => LET first == [sm |-> sm', rules |-> rules', sent |-> notifications']
                    second == CheckTimeoutsAllOp(first, t)
                IN  \A s \in StateNames :
                       /\ CountHistory(second.sm.state_history, s, "TIMEOUT")
                            <= CountHistory(sm.state_history, s, "TIMEOUT") + 1
                       /\ CountCalls(second.sent, "send_state_timeout", s)
                            <= CountCalls(notifications, "send_state_timeout", s) + 1
                       /\ (s \in Range(sm.active_states)
                           /\ s \notin Range(sm'.active_states))
                          => /\ CountHistory(second.sm.state_history, s, "TIMEOUT")
                                  = CountHistory(sm'.state_history, s, "TIMEOUT")
                             /\ CountCalls(second.sent, "send_state_timeout", s)
                                  = CountCalls(notifications', "send_state_timeout", s)
                             /\ s \notin Range(second.sm.active_states)]_vars

\* C12 witness: a sweep removed the three-step rule at an earlier time, one
\* timeout call was made for it, and a sweep made now changes nothing.
C12_Witness ==
    /\ config = "states"
    /\ sm.state_history # <<>>
    /\ LastEntry(sm.state_history)[1] = "R"
    /\ LastEntry(sm.state_history)[2].kind = "TIMEOUT"
    /\ LastEntry(sm.state_history)[3] < now
    /\ CountCalls(notifications, "send_state_timeout", "R") = 1
    /\ CheckTimeoutsAllOp(Monitor, now) = Monitor

\* The state rules whose single step waits for the rule's own start node.
HeartbeatStates ==
    {s \in StateNames :
        /\ Len(States[s].transitions) = 1
        /\ States[s].transitions[1].target_node = States[s].start_node}

\* C13: no sequence of lines completes a heartbeat state rule.  A line
\* carrying its node leaves the rule active, as a new instance (ACTIVATED)
\* when it was not active and as a RESET when it was; the rule leaves the
\* active set only in a step that appends a TIMEOUT entry for it; and no
\* COMPLETED entry and no send_state_completed call is ever made for it.
C13_HeartbeatNeverCompletes ==
    [][\A s \in HeartbeatStates :
          /\ ProcessLogLine(States[s].start_node)
             => /\ sm'.is_active[s]
                /\ s \in Range(sm'.active_states)
                /\ IF sm.is_active[s]
                   THEN CountHistory(sm'.state_history, s, "RESET")
                          = CountHistory(sm.state_history, s, "RESET") + 1
                   ELSE CountHistory(sm'.state_history, s, "ACTIVATED")
                          = CountHistory(sm.state_history, s, "ACTIVATED") + 1
          /\ (sm.is_active[s] /\ ~sm'.is_active[s])
             => CountHistory(sm'.state_history, s, "TIMEOUT")
                  = CountHistory(sm.state_history, s, "TIMEOUT") + 1
          /\ CountHistory(sm'.state_history, s, "COMPLETED") = 0
          /\ CountCalls(notifications', "send_state_completed", s) = 0]_vars

\* The legacy rules whose end node is their start node.
HeartbeatRules == {r \in RuleNames : Rules[r].start_node = Rules[r].end_node}

\* C14: for a legacy rule with start_node = end_node, every line carrying
\* its node leaves the rule active with last_start_time = now, whether it
\* was active before or not; no step ever makes a send_rule_completed or
\* send_rule_activated call for it; and the rule goes from active to
\* inactive only in a sweep, which makes one send_timeout_alert call for it
\* and clears last_start_time.
C14_LegacyHeartbeat ==
    [][\A r \in HeartbeatRules :
          /\ ProcessLogLine(Rules[r].start_node)
             => /\ rules'[r].is_active
                /\ rules'[r].last_start_time = <<now>>
          /\ \A n \in Nodes :
                (ProcessLogLine(n) /\ n # Rules[r].start_node)
                => rules'[r] = rules[r]
          /\ CountCalls(notifications', "send_rule_completed", r) = 0
          /\ CountCalls(notifications', "send_rule_activated", r) = 0
          /\ (rules[r].is_active /\ ~rules'[r].is_active)
             => /\ CheckTimeoutsAll
                /\ rules'[r].last_start_time = None
                /\ CountCalls(notifications', "send_timeout_alert", r)
                     = CountCalls(notifications, "send_timeout_alert", r) + 1]_vars

\* C14 witness: two lines carrying the node of the legacy heartbeat rule
\* have been processed (each one also ran the state rule on the same node),
\* the second one now and later than the first; no sweep has timed the rule
\* out, and it is active with its timer started now.
C14_Witness ==
    /\ config = "both"
    /\ now > 0
    /\ rules["K"].is_active
    /\ rules["K"].last_start_time = <<now>>
    /\ CountCalls(notifications, "send_state_completed", "H") = 2
    /\ CountCalls(notifications, "send_timeout_alert", "K") = 0
    /\ \E i \in 1..Len(sm.state_history) : sm.state_history[i][3] = 0
    /\ LastEntry(sm.state_history)[3] = now

\* C15: for every line both the trigger and the advance are evaluated over
\* all state rules.  Processing a line with node n appends exactly one
\* ACTIVATED or RESET entry for every rule whose start_node is n, and
\* exactly one TRANSITION or COMPLETED entry for every rule that was active
\* with n as the target of its current step; so when n starts rule X and is
\* awaited by an active rule Y, the one line does both.
C15_TriggerAndAdvance ==
    [][\A n \in Nodes :
          ProcessLogLine(n)
          => /\ \A x \in StateNames :
                   States[x].start_node = n
                   => CountHistory(sm'.state_history, x, "ACTIVATED")
                        + CountHistory(sm'.state_history, x, "RESET")
                      = CountHistory(sm.state_history, x, "ACTIVATED")
                        + CountHistory(sm.state_history, x, "RESET") + 1
             /\ \A y \in Range(sm.active_states) :
                   CurrentStep(sm, y).target_node = n
                   => CountHistory(sm'.state_history, y, "TRANSITION")
                        + CountHistory(sm'.state_history, y, "COMPLETED")
                      = CountHistory(sm.state_history, y, "TRANSITION")
                        + CountHistory(sm.state_history, y, "COMPLETED") + 1]_vars

\* C15 witness: the only line so far that carried B, processed now, both
\* created the rule that starts with B and moved the three-step rule,
\* activated earlier, from its first step to its second.
C15_Witness ==
    /\ config = "states"
    /\ CountHistory(sm.state_history, "H", "ACTIVATED") = 1
    /\ CountHistory(sm.state_history, "R", "TRANSITION") = 1
    /\ \E i, j \in 1..Len(sm.state_history) :
          /\ sm.state_history[i] = <<"H", [kind |-> "ACTIVATED", by |-> "B"], now>>
          /\ sm.state_history[j] = <<"R", [kind |-> "TRANSITION", to |-> "C"], now>>
    /\ ActivatedAt(sm.state_history, "R") < now
    /\ sm.current_transition_index["R"] = 1

\* The orders in which the elements of a duplicate-free sequence can be
\* iterated.
Orders(seq) ==
    {o \in [1..Len(seq) -> Range(seq)] : Range(o) = Range(seq)}

\* The multiset of the elements of a sequence.
BagOf(seq) ==
    [x \in Range(seq) |-> Cardinality({i \in 1..Len(seq) : seq[i] = x})]

\* Two monitor states that differ at most in the order of the active set,
\* of the history entries and of the notifier calls.
SameUpToOrder(a, b) ==
    /\ a.rules = b.rules
    /\ a.sm.is_active = b.sm.is_active
    /\ a.sm.current_transition_index = b.sm.current_transition_index
    /\ a.sm.last_activation_time = b.sm.last_activation_time
    /\ Range(a.sm.active_states) = Range(b.sm.active_states)
    /\ BagOf(a.sm.state_history) = BagOf(b.sm.state_history)
    /\ BagOf(a.sent) = BagOf(b.sent)

\* C16: the order in which the rules are iterated does not affect the
\* result.  For every processed line and every sweep, running the same
\* handler with the configured rules, the active set and the snapshot of
\* the active set iterated in any other order gives the same flags, step
\* indices, activation times and set of active rules, and the same
\* multisets of history entries and notifier calls as the step taken.
C16_OrderIndependent ==
    [][/\ \A n \in Nodes :
             ProcessLogLine(n)
             => \A ro \in Orders(RuleOrder), so \in Orders(StateOrder),
                   ao \in Orders(sm.active_states) :
                   LET legacy == CheckLegacyRules(Monitor, ro, n, now)
                       activated ==
                           ActivateStates(
                               [legacy EXCEPT !.sm.active_states = ao],
                               so, n, now)
                   IN  \A snapshot \in Orders(activated.sm.active_states) :
                          SameUpToOrder(
                              CheckStateTransitions(activated, snapshot, n, now),
                              [sm |-> sm', rules |-> rules',
                               sent |-> notifications'])
       /\ CheckTimeoutsAll
          => \A ro \in Orders(RuleOrder), ao \in Orders(sm.active_states) :
                LET legacy == CheckLegacyTimeouts(Monitor, ro, now)
                    swept == CheckTimeoutsOp(
                                 [legacy.sm EXCEPT !.active_states = ao], now)
                IN  SameUpToOrder(
                        SendStateTimeouts([legacy EXCEPT !.sm = swept.sm],
                                          swept.timeouts, now),
                        [sm |-> sm', rules |-> rules',
                         sent |-> notifications'])]_vars

\* C16 witness: one line, processed now, moved two rules: it advanced the
\* three-step rule and completed the rule that starts and ends with B.
C16_Witness ==
    /\ config = "states"
    /\ Len(sm.state_history) >= 4
    /\ LastEntry(sm.state_history) = <<"H", [kind |-> "COMPLETED", by |-> "B"], now>>
    /\ sm.state_history[Len(sm.state_history) - 1]
          = <<"R", [kind |-> "TRANSITION", to |-> "C"], now>>
    /\ sm.is_active["R"]
    /\ LastEntry(notifications).rule = "H"

\* A rule that node n can move: n is its start node, or it is active and n
\* is the target of its current step.
Matches(m, state_name, n) ==
    \/ States[state_name].start_node = n
    \/ /\ state_name \in Range(m.active_states)
       /\ CurrentStep(m, state_name).target_node = n

\* The history entries of one rule, in order.
EntriesOf(h, state_name) ==
    SelectSeq(h, LAMBDA e : e[1] = state_name)

\* C17: processing a line with node n changes only the rules n matches.
\* Every other rule keeps its is_active flag, current_transition_index and
\* last_activation_time, its place in or out of the active set and its
\* history entries; and when n matches no rule, the state machine (active
\* set and history included) is unchanged and no state call is made to the
\* notifier.
C17_OnlyMatchingRulesChange ==
    [][\A n \in Nodes :
          ProcessLogLine(n)
          => /\ \A s \in StateNames :
                   ~Matches(sm, s, n)
                   => /\ sm'.is_active[s] = sm.is_active[s]
                      /\ sm'.current_transition_index[s]
                             = sm.current_transition_index[s]
                      /\ sm'.last_activation_time[s] = sm.last_activation_time[s]
                      /\ (s \in Range(sm'.active_states))
                             <=> (s \in Range(sm.active_states))
                      /\ EntriesOf(sm'.state_history, s)
                             = EntriesOf(sm.state_history, s)
             /\ (\A s \in StateNames : ~Matches(sm, s, n))
                => /\ sm' = sm
                   /\ \A i \in NewCalls :
                         notifications'[i].call
                             \notin {"send_state_completed", "send_state_timeout"}]_vars

\* C17 witness: a line with node B has just been processed while the
\* three-step rule was waiting for C at its second step; that rule still
\* has the step and the activation time it had before.
C17_Witness ==
    /\ config = "states"
    /\ sm.state_history # <<>>
    /\ LastEntry(sm.state_history) = <<"H", [kind |-> "COMPLETED", by |-> "B"], now>>
    /\ sm.is_active["R"]
    /\ sm.current_transition_index["R"] = 1
    /\ sm.last_activation_time["R"] # <<now>>
    /\ LastEventTime(sm.state_history, "R") < now

\* The engine side of the monitor after the step being taken.
MonitorAfter == [sm |-> sm', rules |-> rules', sent |-> notifications']

\* The history entries the step being taken appends.
NewEntries ==
    SubSeq(sm'.state_history, Len(sm.state_history) + 1, Len(sm'.state_history))

InCycle(th) == th.pc \in {"read", "lines"}

\* C19: a stop request is observed only between cycles.  A thread leaves
\* the loop only from stop_event.wait, and during the whole of a cycle,
\* from before its read until after its sweep, the log file is open
\* (log_file is not None), whenever stop_monitoring is called.
C19_StopBetweenCycles ==
    [][\A w \in Threads :
          /\ InCycle(threads[w]) => threads'[w].pc # "dead"
          /\ InCycle(threads[w]) => log_file # None
          /\ InCycle(threads'[w]) => log_file' # None]_vars

\* C20: start_monitoring and stop_monitoring are idempotent.  In every
\* state of the running service: while the monitor is running,
\* start_monitoring returns False and changes nothing (no new thread, the
\* handle and its position as they were) whatever the log source, and
\* stop_monitoring does not return False: it returns True, at once or after
\* join(), and leaves the monitor not running; while it is not running,
\* stop_monitoring returns False and changes nothing, and start_monitoring
\* on an existing log file returns True and leaves the monitor running
\* with a thread started.
C20_StartStopIdempotent ==
    /\ is_running
       => /\ \A source \in LogSources :
                StartMonitoringOp(Service, source)
                    = [ret |-> FALSE, service |-> Service]
          /\ LET stopped == StopMonitoringOp(Service)
                 ended == IF stopped.ret = None
                          THEN JoinReturnsOp(stopped.service)
                          ELSE stopped
             IN  /\ ended.ret = <<TRUE>>
                 /\ ~ended.service.is_running
    /\ ~is_running /\ ~joining
       => /\ StopMonitoringOp(Service) = [ret |-> <<FALSE>>, service |-> Service]
          /\ LET started == StartMonitoringOp(Service, "file")
             IN  /\ started.ret = TRUE
                 /\ started.service.is_running
                 /\ started.service.monitor_thread # None
                 /\ started.service.threads[started.service.monitor_thread[1]].pc
                        = "wait"

\* C20 witness: start_monitoring has returned True on an existing file and
\* the monitor is running; its thread has completed the rule in an earlier
\* cycle and is waiting between two cycles with the file open.
C20_Witness ==
    /\ is_running
    /\ ~stop_event
    /\ sm.state_history # <<>>
    /\ log_file # None
    /\ monitor_thread # None
    /\ threads[monitor_thread[1]] = [pc |-> "wait", new_lines |-> <<>>]
    /\ LastEntry(sm.state_history)[2].kind = "COMPLETED"
    /\ LastEntry(sm.state_history)[3] < now

\* C21: when the log file is missing, cannot be opened or is not
\* configured (or only stdout capture is configured), start_monitoring on
\* a monitor that is not running returns False and changes nothing:
\* is_running stays False, no thread is created, the handle stays None, so
\* no cycle can run; and no thread is ever alive without a start that
\* found the file.
C21_NoSourceNoStart ==
    /\ ~is_running
       => \A source \in LogSources \ {"file"} :
             LET started == StartMonitoringOp(Service, source)
             IN  /\ started.ret = FALSE
                 /\ started.service = Service
                 /\ ~started.service.is_running
                 /\ started.service.threads = threads
    /\ monitor_thread = None
       => /\ \A w \in Threads : ~IsAlive(w)
          /\ ~is_running
          /\ sm.state_history = <<>>

\* C21 witness: the monitor has run, processed a line and been stopped;
\* it is not running, no thread is alive, and start_monitoring with the
\* file missing returns False.
C21_Witness ==
    /\ ~is_running
    /\ ~joining
    /\ monitor_thread # None
    /\ \A w \in Threads : ~IsAlive(w)
    /\ log_file = None
    /\ sm.state_history # <<>>
    /\ StartMonitoringOp(Service, "missing").ret = FALSE


\* The non-blank lines of a text that are ended by a line end, in order.
CompleteLines(chars) ==
    LET pieces == Split(chars)
    IN  SelectSeq(SubSeq(pieces, 1, Len(pieces) - 1), LAMBDA line : ~IsBlank(line))

\* What a poll that does not fail returns in the current state.
Polled == ReadNewLogLinesOp(log_file, file_bytes, position, "none", FALSE)

\* C22: the reader never returns a partial line.  In every state, whatever
\* was written since the last poll (also when it holds no line end at
\* all), the poll returns no more lines than the text after the position
\* of the handle holds non-blank pieces ended by a line end: the piece
\* after the last line end is not among the lines returned.
C22_NoPartialLine ==
    Len(Polled.ret)
        <= Len(CompleteLines(Utf8Decode(SubSeq(file_bytes, position + 1,
                                               Len(file_bytes))).chars))

\* The text appended to the file since the monitor opened it.
Appended ==
    Utf8Decode(SubSeq(file_bytes, log_file_position + 1, Len(file_bytes))).chars

\* C23: across any sequence of writes and polls, the lines the polls have
\* returned so far, followed by the lines a poll returns now, are exactly
\* the non-blank newline-terminated lines appended since the open, each
\* once, whole and in file order, and nothing of the content the file held
\* before the open.
C23_EveryLineOnce ==
    returned \o Polled.ret = CompleteLines(Appended)

\* C24: a poll in which the operating system fails at any of its steps
\* returns no lines and leaves the position of the handle where it was,
\* so that the poll after it returns what a poll without the failure
\* would have returned.
C24_FailedPollKeepsPosition ==
    \A fault \in IOSteps, consumed \in BOOLEAN :
        LET failed == ReadNewLogLinesOp(log_file, file_bytes, position,
                                        fault, consumed)
        IN  /\ failed.ret = <<>>
            /\ failed.position = position
            /\ ReadNewLogLinesOp(log_file, file_bytes, failed.position,
                                 "none", FALSE) = Polled

\* C25: an exception raised inside a poll cycle never ends the worker.
\* A thread that is alive stops being alive only in a step taken from
\* stop_event.wait with the stop event set, and every step that prints a
\* "Monitor loop error" takes a thread from inside its cycle back to
\* stop_event.wait, from where the next cycle begins.
C25_ErrorsNeverEndWorker ==
    [][/\ \A w \in Threads :
             (threads[w].pc # "dead" /\ threads'[w].pc = "dead")
             => (threads[w].pc = "wait" /\ stop_event)
       /\ loop_errors' # loop_errors
          => \E w \in Threads :
                /\ threads[w].pc \in {"read", "lines"}
                /\ threads'[w].pc = "wait"]_vars

\* C25 witness: after an exception was printed, the same thread is inside
\* a later cycle with a line to process, no stop having been requested.
C25_Witness ==
    /\ loop_errors = 1
    /\ is_running
    /\ ~stop_event
    /\ \E w \in Threads :
          threads[w].pc = "lines" /\ threads[w].new_lines # <<>>

\* C26: at every instant at most one thread is executing _monitor_loop,
\* whatever the sequence of start_monitoring and stop_monitoring calls:
\* no two threads are alive at once, and so no two are inside a cycle.
C26_AtMostOneWorker ==
    \A w, u \in Threads : (IsAlive(w) /\ IsAlive(u)) => w = u

\* What a status query shows is free of the three anomalies: no state that
\* is shown active has an index equal to the number of its steps, and a
\* state is shown active exactly when it is among the active names.
WholeStatus(d) ==
    \A s \in StateNames :
        /\ d.state_details[s].is_active
           => d.state_details[s].current_transition_index[1]
                 < Len(States[s].transitions)
        /\ d.state_details[s].is_active
           <=> s \in Range(d.active_state_rule_names)

\* The statement sequences end in the machine the calls return.
StatementsEndInResult ==
    \A state_name \in StateNames, node \in Nodes :
        LET moved == CheckTransitionStatements(sm, state_name, node, now)
            begun == ActivateStateStatements(sm, state_name, node, now)
        IN  /\ moved # <<>>
               => moved[Len(moved)] = CheckTransitionOp(sm, state_name, node, now).sm
            /\ moved = <<>>
               => CheckTransitionOp(sm, state_name, node, now).sm = sm
            /\ begun # <<>>
               => begun[Len(begun)] = ActivateStateOp(sm, state_name, node, now).sm
            /\ begun = <<>>
               => ActivateStateOp(sm, state_name, node, now).sm = sm

\* C27: a status query that runs while the worker is inside
\* check_transition or activate_state never sees a partly updated
\* instance.  In every state and for every call the worker can make there,
\* the status read after any statement of the call is the status read
\* before the call or the one read after it (so never an index already
\* incremented with the activation time still the old one), it shows no
\* active state whose index is the number of its steps, and it shows a
\* state active exactly when the state is in the active set.
C27_QueriesSeeWholeUpdates ==
    \A state_name \in StateNames, node \in Nodes :
        LET before == GetDetailedStatusOp(sm, rules, now)
            moved == CheckTransitionStatements(sm, state_name, node, now)
            begun == ActivateStateStatements(sm, state_name, node, now)
        IN  /\ \A i \in 1..Len(moved) :
                  LET seen == GetDetailedStatusOp(moved[i], rules, now)
                  IN  /\ seen \in {before,
                                   GetDetailedStatusOp(moved[Len(moved)], rules, now)}
                      /\ WholeStatus(seen)
            /\ \A i \in 1..Len(begun) :
                  LET seen == GetDetailedStatusOp(begun[i], rules, now)
                  IN  /\ seen \in {before,
                                   GetDetailedStatusOp(begun[Len(begun)], rules, now)}
                      /\ WholeStatus(seen)

\* C28: the log handle belongs to the worker alone.  While a thread is
\* alive (between cycles or inside one) the handle that start_monitoring
\* opened for it is open: stop_monitoring has not closed it and has not set
\* log_file to None.
C28_HandleOwnedByWorker ==
    \A w \in Threads : IsAlive(w) => log_file # None

\* The rule a completion or timeout call is about is finalized in
\* accumulator a: a legacy rule is inactive; a state rule is inactive, out
\* of the active set, and the last history entry about it is the COMPLETED
\* or TIMEOUT entry.
Finalized(a, sent_call) ==
    IF sent_call.call \in {"send_rule_completed", "send_timeout_alert"}
    THEN ~a.rules[sent_call.rule].is_active
    ELSE IF sent_call.call \in {"send_state_completed", "send_state_timeout"}
    THEN /\ ~a.sm.is_active[sent_call.rule]
         /\ sent_call.rule \notin Range(a.sm.active_states)
         /\ EntriesOf(a.sm.state_history, sent_call.rule) # <<>>
         /\ LastEntry(EntriesOf(a.sm.state_history, sent_call.rule))[2].kind
               \in {"COMPLETED", "TIMEOUT"}
    ELSE TRUE

\* Every statement of the sequence that calls the notifier finds the rule
\* of the call finalized in the accumulator it starts from.
FinalizedAtCalls(before, statements) ==
    \A i \in 1..Len(statements) :
        LET at_call == IF i = 1 THEN before ELSE statements[i - 1]
        IN  Len(statements[i].sent) > Len(at_call.sent)
            => Finalized(at_call, LastEntry(statements[i].sent))

\* The statement sequences of the handlers end in the accumulators the
\* handlers return.
HandlerStatementsEndInResult ==
    /\ \A rule_name \in RuleNames :
          LET timed == LegacyTimeoutStatements(Monitor, rule_name, now)
          IN  IF timed = <<>>
              THEN CheckLegacyTimeout(Monitor, rule_name, now) = Monitor
              ELSE CheckLegacyTimeout(Monitor, rule_name, now) = LastEntry(timed)
    /\ \A rule_name \in RuleNames, node \in Nodes :
          LET ended == LegacyCompletionStatements(Monitor, rule_name, node, now)
          IN  ended # <<>>
              => CheckLegacyRule(Monitor, rule_name, node, now) = LastEntry(ended)
    /\ \A state_name \in StateNames, node \in Nodes :
          LET moved == StateCompletionStatements(Monitor, state_name, node, now)
          IN  IF moved = <<>>
              THEN CheckStateTransition(Monitor, state_name, node, now) = Monitor
              ELSE CheckStateTransition(Monitor, state_name, node, now)
                      = LastEntry(moved)
    /\ LastEntry(StateTimeoutStatements(
                     CheckLegacyTimeouts(Monitor, RuleOrder, now), now))
          = CheckTimeoutsAllOp(Monitor, now)

\* C29 for the state rules alone: send_state_completed and
\* send_state_timeout are called with the state already finalized.
StateCallsFinalized ==
    /\ \A state_name \in StateNames, node \in Nodes :
          FinalizedAtCalls(Monitor,
              StateCompletionStatements(Monitor, state_name, node, now))
    /\ FinalizedAtCalls(CheckLegacyTimeouts(Monitor, RuleOrder, now),
           StateTimeoutStatements(CheckLegacyTimeouts(Monitor, RuleOrder, now), now))

\* C29: whenever a completion or timeout notification is sent, the state
\* change behind it is already finalized.  In every state, for every line
\* and for the sweep, each call of send_state_completed,
\* send_state_timeout, send_rule_completed and send_timeout_alert is made
\* with the rule of the call already inactive (a state rule also removed
\* from the active set with its COMPLETED or TIMEOUT entry recorded).
C29_FinalizedBeforeNotified ==
    /\ StateCallsFinalized
    /\ \A rule_name \in RuleNames :
          FinalizedAtCalls(Monitor,
              LegacyTimeoutStatements(Monitor, rule_name, now))
    /\ \A rule_name \in RuleNames, node \in Nodes :
          FinalizedAtCalls(Monitor,
              LegacyCompletionStatements(Monitor, rule_name, node, now))

\* C30: whether a notification was delivered never influences the engine.
\* Every step that processes a line or sweeps, whatever the calls of
\* send_notification returned in it and before it, leaves the state
\* machine, the legacy rules and the list of notifier calls exactly as the
\* handler computes them from the state before, the node and the clock;
\* each call returns once (a failed call is not made again), and nothing
\* else changes the engine.
C30_DeliveryNeverInfluences ==
    [][/\ \/ MonitorAfter = Monitor
          \/ MonitorAfter = CheckTimeoutsAllOp(Monitor, now)
          \/ \E node_name \in Nodes :
                MonitorAfter = ProcessLogLineOp(Monitor, node_name, now)
       /\ Len(delivered') - Len(delivered)
             = Len(notifications') - Len(notifications)]_vars

\* C30 witness: two different calls of the notifier were made, the first
\* not delivered and the second delivered, and a rule is active in the
\* state reached.
C30_Witness ==
    /\ Len(delivered) = 2
    /\ ~delivered[1]
    /\ delivered[2]
    /\ Len(notifications) = 2
    /\ notifications[1] # notifications[2]
    /\ \/ \E r \in RuleNames : rules[r].is_active
       \/ sm.active_states # <<>>

\* C31: a stop_monitoring called while the monitor runs always terminates,
\* also when the thread never ends its cycle: a caller blocked in join()
\* is eventually not blocked any more.  And whenever the call returns, at
\* once or after join(), it returns True and leaves is_running False and
\* log_file None.
C31_StopTerminates ==
    /\ joining ~> ~joining
    /\ [](is_running /\ ~joining
          => LET stopped == StopMonitoringOp(Service)
             IN  stopped.ret # None
                 => /\ stopped.ret = <<TRUE>>
                    /\ ~stopped.service.is_running
                    /\ stopped.service.log_file = None)
    /\ [](joining
          => /\ JoinReturnsOp(Service).ret = <<TRUE>>
             /\ ~JoinReturnsOp(Service).service.is_running
             /\ JoinReturnsOp(Service).service.log_file = None)
    /\ [][joining /\ ~joining' => ~is_running' /\ log_file' = None]_vars

\* C31 witness: stop_monitoring has returned after its join ran out, with
\* the thread still inside a cycle: the monitor is not running and the
\* handle is released.
C31_Witness ==
    /\ ~joining
    /\ stop_event
    /\ ~is_running
    /\ log_file = None
    /\ monitor_thread # None
    /\ threads[monitor_thread[1]].pc \in {"read", "lines"}

\* C32: between the calls of the engine, every state in the active set
\* has 0 <= current_transition_index < the number of its steps and a
\* last_activation_time that is not None, and every state outside it has
\* is_active False, current_transition_index 0 and last_activation_time
\* None.
C32_InstanceFieldsInRange ==
    \A s \in StateNames :
        IF s \in Range(sm.active_states)
        THEN /\ sm.current_transition_index[s] >= 0
             /\ sm.current_transition_index[s] < Len(States[s].transitions)
             /\ sm.last_activation_time[s] # None
        ELSE /\ ~sm.is_active[s]
             /\ sm.current_transition_index[s] = 0
             /\ sm.last_activation_time[s] = None

\* C32 witness: rule R was activated, moved to its second step and then
\* timed out, and is outside the active set.
C32_Witness ==
    /\ config = "states"
    /\ "R" \notin Range(sm.active_states)
    /\ Len(sm.state_history) = 3
    /\ \A i \in 1..3 : sm.state_history[i][1] = "R"
    /\ sm.state_history[1][2].kind = "ACTIVATED"
    /\ sm.state_history[2][2].kind = "TRANSITION"
    /\ sm.state_history[3][2].kind = "TIMEOUT"

\* The five kinds of history entries.
EventKinds == {"ACTIVATED", "RESET", "TRANSITION", "COMPLETED", "TIMEOUT"}

\* C33: the history is append-only.  Every call of activate_state,
\* check_transition and check_timeouts leaves the entries there were as a
\* prefix of the history; every entry it appends is about a configured
\* state, has one of the five kinds and carries the clock reading of the
\* call; and, the clock never going back, the timestamps never decrease
\* along the history.
C33_HistoryAppendOnly ==
    [][/\ Len(sm'.state_history) >= Len(sm.state_history)
       /\ SubSeq(sm'.state_history, 1, Len(sm.state_history)) = sm.state_history
       /\ \A i \in 1..Len(NewEntries) :
             /\ NewEntries[i][1] \in StateNames
             /\ NewEntries[i][2].kind \in EventKinds
             /\ NewEntries[i][3] = now
       /\ \A i, j \in 1..Len(sm'.state_history) :
             i <= j => sm'.state_history[i][3] <= sm'.state_history[j][3]]_vars

\* C33 witness: a history of three entries written at three different
\* clock readings, the last of them a RESET.
C33_Witness ==
    /\ Len(sm.state_history) = 3
    /\ sm.state_history[1][3] < sm.state_history[2][3]
    /\ sm.state_history[2][3] < sm.state_history[3][3]
    /\ sm.state_history[3][2].kind = "RESET"

\* State s is active with n TIMEOUT entries and k timeout calls behind it,
\* the worker of the monitor is in its loop and has not been told to stop,
\* and the clock of the model can still pass the deadline of the step.
StaleInstance(s, n, k) ==
    /\ s \in StateNames
    /\ s \in Range(sm.active_states)
    /\ CountHistory(sm.state_history, s, "TIMEOUT") = n
    /\ CountCalls(notifications, "send_state_timeout", s) = k
    /\ monitor_thread # None
    /\ IsAlive(monitor_thread[1])
    /\ ~stop_event
    /\ sm.last_activation_time[s][1] + CurrentStep(sm, s).timeout_ms
           < 669 * MaxLoopTicks

\* State s has been removed by a sweep: one more TIMEOUT entry, the last
\* entry of s, and one more timeout call.
SweptOut(s, n, k) ==
    /\ s \in StateNames
    /\ s \notin Range(sm.active_states)
    /\ CountHistory(sm.state_history, s, "TIMEOUT") = n + 1
    /\ LastEntry(EntriesOf(sm.state_history, s))[2].kind = "TIMEOUT"
    /\ CountCalls(notifications, "send_state_timeout", s) = k + 1

\* C34: while the worker keeps running cycles and time goes on, an active
\* instance for which no line with its start node or its target is written
\* any more is eventually removed by a sweep, with a TIMEOUT entry and a
\* call of send_state_timeout, unless the caller stops the monitor first.
C34_StaleInstanceTimesOut ==
    \A s \in {"R", "H", "T"}, n \in 0..MaxLoopHistory, k \in 0..MaxLoopHistory :
        StaleInstance(s, n, k) ~> (SweptOut(s, n, k) \/ stop_event)

\* C34 witness: the worker is in its loop, never told to stop, and the
\* instance the line A created has been swept out, deadline passed.
C34_Witness ==
    /\ SweptOut("T", 0, 0)
    /\ ~stop_event
    /\ is_running
    /\ monitor_thread # None
    /\ IsAlive(monitor_thread[1])
    /\ unread = <<>>

\* The kinds that end an occurrence of a rule in the history.
TerminalKinds == {"COMPLETED", "TIMEOUT"}

\* The kinds of the entries of sequence e, in order.
KindsOf(e) == [i \in 1..Len(e) |-> e[i][2].kind]

\* The position of the ACTIVATED entry that begins the occurrence entry i
\* of kinds k belongs to.
OccurrenceStart(k, i) ==
    CHOOSE j \in 1..i :
        /\ k[j] = "ACTIVATED"
        /\ \A l \in (j + 1)..i : k[l] # "ACTIVATED"

\* C35: restricted to one rule, the history is a sequence of occurrences:
\* an ACTIVATED entry, then RESET and TRANSITION entries, then at most one
\* terminal entry, COMPLETED or TIMEOUT.  An ACTIVATED entry follows nothing
\* or a terminal entry, and a terminal entry is followed by nothing or by an
\* ACTIVATED entry; an occurrence that ends with COMPLETED holds exactly
\* (number of steps - 1) TRANSITION entries; and the last occurrence is
\* open exactly while the rule is active.
C35_HistoryOfOccurrences ==
    \A s \in StateNames :
        LET k == KindsOf(EntriesOf(sm.state_history, s))
        IN  /\ k # <<>> => k[1] = "ACTIVATED"
            /\ \A i \in 2..Len(k) :
                  k[i] = "ACTIVATED" <=> k[i - 1] \in TerminalKinds
            /\ \A i \in 1..Len(k) :
                  k[i] = "COMPLETED" =>
                      Cardinality({j \in OccurrenceStart(k, i)..i :
                                      k[j] = "TRANSITION"})
                          = Len(States[s].transitions) - 1
            /\ s \in Range(sm.active_states)
                  <=> (k # <<>> /\ k[Len(k)] \notin TerminalKinds)

\* C35 witness: the three-step rule R has gone through a whole occurrence,
\* two TRANSITION entries between its ACTIVATED and its COMPLETED.
C35_Witness ==
    /\ config = "states"
    /\ KindsOf(EntriesOf(sm.state_history, "R"))
           = <<"ACTIVATED", "TRANSITION", "TRANSITION", "COMPLETED">>

\* The entries of kind TRANSITION or COMPLETED about state_name that
\* history h holds after its first n entries.
AdvancesAfter(h, n, state_name) ==
    Cardinality({i \in (n + 1)..Len(h) :
                    /\ h[i][1] = state_name
                    /\ h[i][2].kind \in {"TRANSITION", "COMPLETED"}})

\* State s is active at a step that waits for node_name, and the step
\* after it waits for node_name too.
AtRepeatedTarget(s, node_name) ==
    /\ s \in Range(sm.active_states)
    /\ sm.current_transition_index[s] + 2 <= Len(States[s].transitions)
    /\ States[s].transitions[sm.current_transition_index[s] + 1].target_node
           = node_name
    /\ States[s].transitions[sm.current_transition_index[s] + 2].target_node
           = node_name

\* C36: one line moves a state by at most one step.  Whatever the state
\* of the monitor and the node of the line, the handler of the line leaves
\* current_transition_index at most one higher and appends at most one
\* TRANSITION or COMPLETED entry for the state; when the state waits for
\* node X and its next step waits for X too, a line with X leaves the state
\* active, one step further, with one TRANSITION entry.  The same holds
\* on every step the monitor takes.
C36_OneStepPerLine ==
    /\ [](\A s \in StateNames, node_name \in Nodes :
             LET after == ProcessLogLineOp(Monitor, node_name, now).sm
                 n == Len(sm.state_history)
             IN  /\ after.current_transition_index[s]
                        <= sm.current_transition_index[s] + 1
                 /\ AdvancesAfter(after.state_history, n, s) <= 1
                 /\ AtRepeatedTarget(s, node_name)
                        => /\ s \in Range(after.active_states)
                           /\ after.current_transition_index[s]
                                  = sm.current_transition_index[s] + 1
                           /\ AdvancesAfter(after.state_history, n, s) = 1
                           /\ LastEntry(after.state_history)[2].kind
                                  = "TRANSITION")
    /\ [][\A s \in StateNames :
             /\ sm'.current_transition_index[s]
                    <= sm.current_transition_index[s] + 1
             /\ AdvancesAfter(sm'.state_history, Len(sm.state_history), s)
                    <= 1]_vars

\* C36 witness: the line C has been processed while R waited for C at its
\* second step: R is active at its third step, which waits for C too, and
\* the last entry of the history is the TRANSITION of that line.
C36_Witness ==
    /\ config = "states"
    /\ "R" \in Range(sm.active_states)
    /\ sm.current_transition_index["R"] = 2
    /\ KindsOf(EntriesOf(sm.state_history, "R"))
           = <<"ACTIVATED", "TRANSITION", "TRANSITION">>
    /\ LastEntry(sm.state_history)[1] = "R"

\* The TIMEOUT entries history h holds after its first n entries.
TimeoutsAfter(h, n) ==
    Cardinality({i \in (n + 1)..Len(h) : h[i][2].kind = "TIMEOUT"})

\* C37: check_transition never looks at the deadline.  For an active state
\* whose current step is already late, the call with the node the step
\* waits for returns a result, advances the state by one step or completes
\* it, and appends no TIMEOUT entry; the handler of a line appends no
\* TIMEOUT entry and makes no timeout call, whatever the state and the
\* node; and a step of the monitor that adds a TIMEOUT entry is a sweep.
C37_AdvanceIgnoresDeadline ==
    /\ [](\A s \in StateNames :
             (s \in Range(sm.active_states) /\ TimedOut(sm, s, now))
                 => LET index == sm.current_transition_index[s]
                        after == CheckTransitionOp(sm, s,
                                     CurrentStep(sm, s).target_node, now)
                    IN  /\ after.ret # None
                        /\ after.ret[1] = (index + 1 = Len(States[s].transitions))
                        /\ IF after.ret[1]
                           THEN /\ s \notin Range(after.sm.active_states)
                                /\ LastEntry(after.sm.state_history)[2].kind
                                       = "COMPLETED"
                           ELSE /\ s \in Range(after.sm.active_states)
                                /\ after.sm.current_transition_index[s] = index + 1
                                /\ after.sm.last_activation_time[s] = <<now>>
                        /\ TimeoutsAfter(after.sm.state_history,
                                         Len(sm.state_history)) = 0)
    /\ [](\A node_name \in Nodes :
             LET after == ProcessLogLineOp(Monitor, node_name, now)
             IN  /\ TimeoutsAfter(after.sm.state_history,
                                  Len(sm.state_history)) = 0
                 /\ \A i \in (Len(notifications) + 1)..Len(after.sent) :
                       after.sent[i].call
                           \notin {"send_state_timeout", "send_timeout_alert"})
    /\ [][TimeoutsAfter(sm'.state_history, Len(sm.state_history)) > 0
             => /\ now' = now
                /\ sm' = CheckTimeoutsAllOp(Monitor, now).sm]_vars

\* C37 witness: R was activated at time 0 and moved to its second step by
\* a line B processed when the 669 ms of its first step were over, and R
\* has no TIMEOUT entry.
C37_Witness ==
    /\ config = "states"
    /\ Len(EntriesOf(sm.state_history, "R")) = 2
    /\ EntriesOf(sm.state_history, "R")[1][2].kind = "ACTIVATED"
    /\ EntriesOf(sm.state_history, "R")[1][3] = 0
    /\ EntriesOf(sm.state_history, "R")[2][2].kind = "TRANSITION"
    /\ EntriesOf(sm.state_history, "R")[2][3] >= 1338
    /\ sm.current_transition_index["R"] = 1

\* The calls about rule name that sequence sent holds after its first n.
CallsAfter(sent, n, name) ==
    {i \in (n + 1)..Len(sent) : sent[i].rule = name}

\* C38: for a legacy rule with start_node different from end_node that is
\* active, a line with its start_node changes nothing: is_active and
\* last_start_time stay as they were and no call about the rule is made,
\* so every later sweep measures the rule from its first start, and times
\* it out when that time exceeds timeout_ms.  On every step of the
\* monitor, such a rule that is active before and after the step has the
\* last_start_time it had.
C38_SecondStartChangesNothing ==
    /\ [](\A r \in RuleNames :
             (Rules[r].start_node # Rules[r].end_node /\ rules[r].is_active)
                 => LET after == ProcessLogLineOp(Monitor,
                                     Rules[r].start_node, now)
                    IN  /\ after.rules[r] = rules[r]
                        /\ CallsAfter(after.sent, Len(notifications), r) = {}
                        /\ \A t \in ClockReadings :
                              t >= now =>
                                  (CheckTimeoutsAllOp(after, t).rules[r].is_active
                                      <=> ~FloatGreater(
                                              TotalSecondsTimes1000(
                                                  t - rules[r].last_start_time[1]),
                                              Rules[r].timeout_ms)))
    /\ [][\A r \in RuleNames :
             (/\ Rules[r].start_node # Rules[r].end_node
              /\ rules[r].is_active
              /\ rules'[r].is_active)
                 => rules'[r] = rules[r]]_vars

\* C38 witness: rule L was started at time 0 and is active one clock
\* reading later, one activation call made: the state in which a further
\* line A finds it.
C38_Witness ==
    /\ config = "rules"
    /\ rules["L"] = [is_active |-> TRUE, last_start_time |-> <<0>>]
    /\ now = 669
    /\ CountCalls(notifications, "send_rule_activated", "L") = 1
    /\ Len(notifications) = 1

\* The step is one of the caller of start_monitoring or stop_monitoring.
CallerStep ==
    \/ is_running' # is_running
    \/ stop_event' # stop_event
    \/ log_file' # log_file
    \/ monitor_thread' # monitor_thread
    \/ joining' # joining

\* C39: stopping and starting the monitor does not touch the engine.  No
\* step of start_monitoring or stop_monitoring changes the state machine,
\* the legacy rules or the calls made, and nothing changes them while no
\* worker is alive, so a state that was active when the monitor stopped is
\* active, at the same step and with the same activation time, when it is
\* started again; the first sweep then removes it exactly when the time
\* since that activation exceeds the timeout of its step.  Lines appended
\* while no handle is open are never read: the handle start_monitoring
\* opens stands at the end of the file.
C39_RestartKeepsEngine ==
    /\ [][CallerStep => /\ sm' = sm
                        /\ rules' = rules
                        /\ notifications' = notifications]_vars
    /\ [][(\A w \in Threads : ~IsAlive(w)) => sm' = sm /\ rules' = rules]_vars
    /\ [](log_file = None => unread = <<>>)
    /\ [][log_file = None /\ log_file' # None => unread' = <<>>]_vars
    /\ [](\A s \in StateNames :
             (/\ ~is_running
              /\ \A w \in Threads : ~IsAlive(w)
              /\ s \in Range(sm.active_states))
                 => LET started == StartMonitoringOp(Service, "file")
                        swept == CheckTimeoutsAllOp(Monitor, now).sm
                    IN  /\ started.ret
                        /\ started.service.is_running
                        /\ started.service.unread = <<>>
                        /\ s \in Range(swept.active_states)
                               <=> ~TimedOut(sm, s, now))

\* C39 witness: the monitor has been stopped (stop_event is set, no worker
\* is alive, the handle is closed) with T active at its second step since
\* time 0, and the clock has passed the deadline of that step meanwhile.
C39_Witness ==
    /\ ~is_running
    /\ stop_event
    /\ log_file = None
    /\ \A w \in Threads : ~IsAlive(w)
    /\ "T" \in Range(sm.active_states)
    /\ sm.current_transition_index["T"] = 1
    /\ sm.last_activation_time["T"] = <<0>>
    /\ now = 1338

=============================================================================
